---- MODULE Spec2Model ----
(***************************************************************************)
(* Background full-paper generation of the research-paper generator:       *)
(* BackgroundTaskManager (services/background_tasks.py) and the retry loop *)
(* of ComprehensiveContentGenerator (services/content_generator.py), its   *)
(* parser of batched responses, and the requests of main.py that start a   *)
(* job or generate one section.                                            *)
(*                                                                         *)
(* A worker thread is one run of _generate_complete_paper_background.      *)
(* Every call to the store, the embedder or the provider is one step, and  *)
(* such a call either returns or raises.                                   *)
(***************************************************************************)
EXTENDS Naturals, Integers, Sequences, FiniteSets, TLC

\* ------------------------------------------------------------------ bounds

\* In a run whose calls may fail, the sections missing at the start are
\* among this many last names of the canonical list.
MaxRemaining == 3
\* Largest word count of one generated section.
MaxWords == 1
\* Blocks in one batched provider response.
MaxBlocks == 2
\* The same when two workers run.
MaxRemainingConc == 1
\* Failing calls injected in a run that records its Paper status writes.
MaxFaultsStatus == 2
\* Failing calls injected when a resume request follows a run.
MaxFaultsResume == 1
\* Failing calls injected when two workers run.
MaxFaultsConc == 1
\* Pieces a response text is put together from
MaxPieces == 3
\* Rows of a paper beyond which a client adds no more.
MaxRows == 12
\* Files of one upload, and chunks of one file.
MaxFiles == 2
MaxChunks == 3
\* Sections missing when a run that counts its provider calls starts.
MaxRemainingCalls == 3

\* --------------------------------------------------------------- constants

\* background_tasks.py:65 comprehensive_sections
comprehensive_sections ==
    << "Abstract", "Introduction", "Literature Review", "Methodology",
       "System Design", "Implementation", "Experimental Setup",
       "Results", "Discussion", "Conclusion", "Future Work" >>

CanonicalSet == { comprehensive_sections[i] : i \in 1..Len(comprehensive_sections) }

\* A section name outside the canonical list (content_generator.py:52 knows it).
ExtraNames == { "Related Work" }

AllNames == CanonicalSet \cup ExtraNames

\* content_generator.py:285 and :374
max_retries == 3
\* content_generator.py:286 and :375
retry_delay_base == 30
\* background_tasks.py:137
pacing_delay == 15

Papers == { "p1", "p2" }
Workers == 1..2

\* background_tasks.py:24 task_id = f"generate_paper_{paper_id}"
TaskIdMutant(p) == << "generate_paper", "p1" >>

TaskId(p) == << "generate_paper", p >>
TaskIds == { TaskId(p) : p \in Papers }

\* No limit on the failing calls of a run.
Unlimited == 0 - 1

\* ------------------------------------------------------ error classification

\* Error messages of the provider, as character sequences.
Msg429 == << "4", "2", "9" >>
MsgQuota == << "Q", "u", "o", "t", "a" >>
MsgRate == << "R", "A", "T", "E" >>
MsgLimit == << "l", "i", "m", "i", "t" >>
MsgGenerate == << "g", "e", "n", "e", "r", "a", "t", "e" >>
MsgTimeout == << "T", "i", "m", "e", "o", "u", "t" >>
Msg500 == << "5", "0", "0" >>

ErrorMessages == { Msg429, MsgQuota, MsgRate, MsgLimit, MsgGenerate, MsgTimeout, Msg500 }

\* str.lower() on the letters A to Z
LowerChar(c) ==
    LET upper == << "A", "B", "C", "D", "E", "F", "G", "H", "I", "J", "K",
                    "L", "M", "N", "O", "P", "Q", "R", "S", "T", "U", "V",
                    "W", "X", "Y", "Z" >>
        lower == << "a", "b", "c", "d", "e", "f", "g", "h", "i", "j", "k",
                    "l", "m", "n", "o", "p", "q", "r", "s", "t", "u", "v",
                    "w", "x", "y", "z" >>
    IN IF \E i \in 1..26 : upper[i] = c
       THEN lower[CHOOSE i \in 1..26 : upper[i] = c]
       ELSE c

Lower(s) == [ i \in 1..Len(s) |-> LowerChar(s[i]) ]

\* Python's `sub in s` on strings
Contains(sub, s) ==
    \E i \in 0..(Len(s) - Len(sub)) : SubSeq(s, i + 1, i + Len(sub)) = sub

\* content_generator.py:312 and :402
Keywords ==
    { << "4", "2", "9" >>, << "q", "u", "o", "t", "a" >>,
      << "r", "a", "t", "e" >>, << "l", "i", "m", "i", "t" >> }

\* The messages that, lower-cased, read 429, quota, rate or limit somewhere
\* ("generate" reads "rate").
RateLimitMessages == { Msg429, MsgQuota, MsgRate, MsgLimit, MsgGenerate }

\* any(keyword in error_msg.lower() for keyword in [...])
IsRateLimit(error_msg) == \E k \in Keywords : Contains(k, Lower(error_msg))

\* content_generator.py:313 and :403  if attempt < max_retries - 1
ShouldSleep(attempt) == attempt < max_retries - 1

NextDelayMutant(d) == d

\* content_generator.py:317 and :407  retry_delay *= 2
NextDelay(d) == d * 2

\* content_generator.py:320 and :411  if attempt == max_retries - 1: raise
IsLastAttempt(attempt) == attempt = max_retries - 1

\* ------------------------------------------------------------------ batching

RemainingSectionsMutant(existing_sections) == comprehensive_sections

\* background_tasks.py:93
\* [s for s in comprehensive_sections if s not in existing_sections]
RemainingSections(existing_sections) ==
    SelectSeq(comprehensive_sections, LAMBDA s : s \notin existing_sections)

RECURSIVE PairsFrom(_, _)
PairsFrom(remaining_sections, i) ==
    IF i > Len(remaining_sections) THEN << >>
    ELSE IF i + 1 <= Len(remaining_sections)
         THEN << << remaining_sections[i], remaining_sections[i + 1] >> >>
                  \o PairsFrom(remaining_sections, i + 2)
         ELSE << << remaining_sections[i] >> >>

RECURSIVE PairsDroppingLast(_, _)
PairsDroppingLast(remaining_sections, i) ==
    IF i + 1 > Len(remaining_sections) THEN << >>
    ELSE << << remaining_sections[i], remaining_sections[i + 1] >> >>
             \o PairsDroppingLast(remaining_sections, i + 2)

SectionPairsMutant(remaining_sections) == PairsDroppingLast(remaining_sections, 1)

\* background_tasks.py:94-101
SectionPairs(remaining_sections) == PairsFrom(remaining_sections, 1)

\* comprehensive_sections.index(section_name), 0-based (background_tasks.py:169)
SectionIndex(section_name) ==
    (CHOOSE i \in 1..Len(comprehensive_sections) :
        comprehensive_sections[i] = section_name) - 1

ShouldPaceMutant(batch_idx) == batch_idx > 1

\* background_tasks.py:135  if batch_idx > 0
ShouldPace(batch_idx) == batch_idx > 0

RECURSIVE Flatten(_)
Flatten(ss) == IF ss = << >> THEN << >> ELSE Head(ss) \o Flatten(Tail(ss))

Range(s) == { s[i] : i \in 1..Len(s) }


\* round((completed_count / len(comprehensive_sections)) * 100)
\* (background_tasks.py:122); no tie arises for an integer count.
ProgressPercentage(completed_count) ==
    (200 * completed_count + Len(comprehensive_sections))
        \div (2 * Len(comprehensive_sections))

\* f"generating_batch_{batch_idx + 1}" (background_tasks.py:126)
BatchStatus(batch_idx) ==
    CASE batch_idx = 0 -> "generating_batch_1"
      [] batch_idx = 1 -> "generating_batch_2"
      [] batch_idx = 2 -> "generating_batch_3"
      [] batch_idx = 3 -> "generating_batch_4"
      [] batch_idx = 4 -> "generating_batch_5"
      [] OTHER -> "generating_batch_6"

\* ------------------------------------------------------ the batched response

WordCounts == 1..MaxWords

\* One "=== SECTION: <header> ===" block of a batched response: the expected
\* names its header line contains, and the word count of its body after
\* post-processing.
Blocks(section_names) ==
    [ header : SUBSET Range(section_names), words : WordCounts ]

RECURSIVE SeqsUpTo(_, _)
SeqsUpTo(S, n) ==
    IF n = 0 THEN { << >> }
    ELSE LET shorter == SeqsUpTo(S, n - 1)
         IN shorter \cup { Append(q, x) : q \in shorter, x \in S }

Responses(section_names) == SeqsUpTo(Blocks(section_names), MaxBlocks)

\* The response the prompt asks for: one block per name, in the order asked.
FullResponse(section_names) ==
    [ i \in 1..Len(section_names) |->
        [ header |-> { section_names[i] }, words |-> 1 ] ]

\* content_generator.py:342-346: the first expected name the header contains
MatchedSection(header, section_names) ==
    IF \E i \in 1..Len(section_names) : section_names[i] \in header
    THEN section_names[CHOOSE i \in 1..Len(section_names) :
            /\ section_names[i] \in header
            /\ \A j \in 1..(i - 1) : section_names[j] \notin header]
    ELSE ""

\* sections[matched_section] = section_content on an insertion-ordered dict
DictPut(d, k, v) ==
    IF \E i \in 1..Len(d) : d[i].section_name = k
    THEN [ i \in 1..Len(d) |->
            IF d[i].section_name = k THEN [ section_name |-> k, words |-> v ] ELSE d[i] ]
    ELSE Append(d, [ section_name |-> k, words |-> v ])

RECURSIVE ParseFrom(_, _, _)
ParseFrom(parts, section_names, sections) ==
    IF parts = << >> THEN sections
    ELSE LET matched_section == MatchedSection(Head(parts).header, section_names)
         IN ParseFrom(Tail(parts), section_names,
                IF matched_section # ""
                THEN DictPut(sections, matched_section, Head(parts).words)
                ELSE sections)

\* content_generator.py:325-358 _parse_multiple_sections, on the blocks
ParseMultipleSections(content, section_names) ==
    ParseFrom(content, section_names, << >>)

\* ------------------------------- the batched response, character by character

\* A text is a sequence of characters. The characters of a section name:
Chars(section_name) ==
    CASE section_name = "Abstract" ->
           << "A", "b", "s", "t", "r", "a", "c", "t" >>
      [] section_name = "Introduction" ->
           << "I", "n", "t", "r", "o", "d", "u", "c", "t", "i", "o", "n" >>
      [] section_name = "Literature Review" ->
           << "L", "i", "t", "e", "r", "a", "t", "u", "r", "e", " ", "R",
              "e", "v", "i", "e", "w" >>
      [] section_name = "Methodology" ->
           << "M", "e", "t", "h", "o", "d", "o", "l", "o", "g", "y" >>
      [] section_name = "System Design" ->
           << "S", "y", "s", "t", "e", "m", " ", "D", "e", "s", "i", "g",
              "n" >>
      [] section_name = "Implementation" ->
           << "I", "m", "p", "l", "e", "m", "e", "n", "t", "a", "t", "i",
              "o", "n" >>
      [] section_name = "Experimental Setup" ->
           << "E", "x", "p", "e", "r", "i", "m", "e", "n", "t", "a", "l",
              " ", "S", "e", "t", "u", "p" >>
      [] section_name = "Results" ->
           << "R", "e", "s", "u", "l", "t", "s" >>
      [] section_name = "Discussion" ->
           << "D", "i", "s", "c", "u", "s", "s", "i", "o", "n" >>
      [] section_name = "Conclusion" ->
           << "C", "o", "n", "c", "l", "u", "s", "i", "o", "n" >>
      [] section_name = "Future Work" ->
           << "F", "u", "t", "u", "r", "e", " ", "W", "o", "r", "k" >>
      [] section_name = "Related Work" ->
           << "R", "e", "l", "a", "t", "e", "d", " ", "W", "o", "r", "k" >>

\* What str.strip() removes and what \s matches, among the characters used
Whitespace == { " ", "\n", "\t" }

\* str.strip()
Strip(s) ==
    LET kept == { i \in 1..Len(s) : s[i] \notin Whitespace }
    IN IF kept = { } THEN << >>
       ELSE SubSeq(s, CHOOSE i \in kept : \A j \in kept : i <= j,
                      CHOOSE i \in kept : \A j \in kept : j <= i)

StartsWith(s, prefix) ==
    /\ Len(prefix) <= Len(s)
    /\ SubSeq(s, 1, Len(prefix)) = prefix

\* s without its first n characters
Drop(s, n) == SubSeq(s, n + 1, Len(s))

\* str.split(sep): the pieces between the occurrences of sep, found from the
\* left and never overlapping; a text without sep is its own single piece.
Split(s, sep) ==
    LET found == { i \in 1..Len(s) : StartsWith(Drop(s, i - 1), sep) }
        RECURSIVE From(_)
        From(first) ==
            LET later == { i \in found : i >= first }
                next == CHOOSE i \in later : \A j \in later : i <= j
            IN IF later = { } THEN << SubSeq(s, first, Len(s)) >>
               ELSE << SubSeq(s, first, next - 1) >> \o From(next + Len(sep))
    IN From(1)

\* sep.join(lines)
RECURSIVE Join(_, _)
Join(lines, sep) ==
    IF lines = << >> THEN << >>
    ELSE IF Len(lines) = 1 THEN Head(lines)
         ELSE Head(lines) \o sep \o Join(Tail(lines), sep)

\* str.replace(old, new): every occurrence of old, found from the left and
\* never overlapping, becomes new
Replace(s, old, new) == Join(Split(s, old), new)

\* content_generator.py:327 and the marker the prompt asks for (:262, :277)
Marker == << "=", "=", "=", " ", "S", "E", "C", "T", "I", "O", "N", ":" >>

\* content_generator.py:421: the openings removed from the start of a content
Openings ==
    { << "H", "e", "r", "e", " ", "i", "s", " ", "t", "h", "e" >>,
      << "H", "e", "r", "e", "'", "s", " ", "t", "h", "e" >>,
      << "T", "h", "e", " ", "f", "o", "l", "l", "o", "w", "i", "n", "g",
         " ", "i", "s" >> }

\* re.sub(r'\n\s*\n\s*\n+', '\n\n', content): a run of whitespace that starts
\* at a newline and holds three newlines or more is replaced, from its first
\* newline to its last, by two newlines.
RECURSIVE CollapseBlankLines(_)
CollapseBlankLines(s) ==
    IF s = << >> THEN << >>
    ELSE LET run == { i \in 1..Len(s) : \A j \in 1..i : s[j] \in Whitespace }
             newlines == { i \in run : s[i] = "\n" }
             last == CHOOSE i \in newlines : \A j \in newlines : j <= i
         IN IF Head(s) = "\n" /\ Cardinality(newlines) >= 3
            THEN << "\n", "\n" >> \o CollapseBlankLines(Drop(s, last))
            ELSE << Head(s) >> \o CollapseBlankLines(Tail(s))

\* re.sub(r'\n+', ' ', content)
RECURSIVE NewlinesToSpace(_)
NewlinesToSpace(s) ==
    IF s = << >> THEN << >>
    ELSE IF Head(s) # "\n" THEN << Head(s) >> \o NewlinesToSpace(Tail(s))
         ELSE IF Len(s) > 1 /\ s[2] = "\n" THEN NewlinesToSpace(Tail(s))
              ELSE << " " >> \o NewlinesToSpace(Tail(s))

\* content_generator.py:417-439 post_process_content. Both prefix patterns
\* are anchored at the start of the content and ignore case; the citation
\* pattern of line 428 replaces every [n] by itself.
post_process_content(content, section_name) ==
    LET opened == { o \in Openings : StartsWith(Lower(content), Lower(o)) }
        no_opening ==
            IF opened = { } THEN content
            ELSE Drop(content, Len(CHOOSE o \in opened : TRUE))
        name == Chars(section_name)
        \* ^<name>\s*:?\s*
        after_name == Drop(no_opening, Len(name))
        blanks(s) ==
            Cardinality({ i \in 1..Len(s) : \A j \in 1..i : s[j] \in Whitespace })
        after_blanks == Drop(after_name, blanks(after_name))
        after_colon ==
            IF after_blanks # << >> /\ Head(after_blanks) = ":"
            THEN Tail(after_blanks) ELSE after_blanks
        no_name ==
            IF StartsWith(Lower(no_opening), Lower(name))
            THEN Drop(after_colon, blanks(after_colon))
            ELSE no_opening
        spaced == Strip(CollapseBlankLines(no_name))
    IN IF section_name = "Abstract" THEN Strip(NewlinesToSpace(spaced))
       ELSE spaced

\* content_generator.py:341-346: the first expected name that the header,
\* lower-cased, contains; "" stands for None.
ExpectedSectionInMutant(section_name, section_names) == section_names[1]

ExpectedSectionIn(section_name, section_names) ==
    LET hits == { i \in 1..Len(section_names) :
                    Contains(Lower(Chars(section_names[i])), Lower(section_name)) }
    IN IF hits = { } THEN ""
       ELSE section_names[CHOOSE i \in hits : \A j \in hits : i <= j]

\* content_generator.py:349: '\n'.join(lines[1:]).strip()
SectionContentMutant(lines) == Strip(Join(lines, << "\n" >>))

SectionContent(lines) == Strip(Join(Tail(lines), << "\n" >>))

\* content_generator.py:325-358 _parse_multiple_sections. The dict `sections`
\* is the set of its items; storing under a key replaces the item of that key.
parse_multiple_sections(content, section_names) ==
    LET parts == Split(content, Marker)
        RECURSIVE Over(_, _)
        Over(rest, sections) ==
            IF rest = << >> THEN sections
            ELSE LET lines == Split(Strip(Head(rest)), << "\n" >>)
                     section_line == Strip(lines[1])
                     section_name ==
                         Strip(Replace(section_line, << "=", "=", "=" >>, << >>))
                     matched == ExpectedSectionIn(section_name, section_names)
                     section_content ==
                         post_process_content(SectionContent(lines), matched)
                 IN Over(Tail(rest),
                        IF matched # ""
                        THEN { item \in sections : item.section_name # matched }
                             \cup { [ section_name |-> matched,
                                      content |-> section_content ] }
                        ELSE sections)
    IN Over(Tail(parts), { })


\* -------------------------------------------------------------------- state

VARIABLES
    tasks,      \* self.tasks: task id -> entry (background_tasks.py:18)
    tasksLog,   \* per task id, the status values written to its entry, in order
    papers,     \* the papers table: paper id -> row
    sections,   \* the sections table: paper id -> rows in insertion order
    start,      \* per worker, the start_paper_generation call that creates it
    wk,         \* per worker, the locals of _generate_complete_paper_background
    faults,     \* failing calls the run may still meet (Unlimited: any number)
    probe,      \* input and result of the batching function applied on its own
    gen,        \* the locals of one generate_content request (main.py:239)
    reply,      \* per task id, what the last get_task_status call for it returned
    ingest      \* the locals of one process_files_background task and the chunks stored

vars ==
    << tasks, tasksLog, papers, sections, start, wk, faults, probe, gen, reply,
       ingest >>

NoTask ==
    [ present |-> FALSE, status |-> "not_found", paper_id |-> "", thread |-> 0,
      error |-> "", has_result |-> FALSE, sections_generated |-> 0,
      total_words |-> 0, result_sections |-> << >> ]

NoMeta ==
    [ kind |-> "none", current_section |-> << >>, completed_sections |-> 0,
      total_sections |-> 0, progress_percentage |-> 0, total_words |-> 0,
      error |-> "" ]

IdleWorker ==
    [ pc |-> "idle", paper_id |-> "", error |-> "",
      existing_sections |-> { }, section_pairs |-> << >>, batch_idx |-> 0,
      batch_content |-> << >>, generated_sections |-> << >>, total_words |-> 0,
      attempt |-> 0, retry_delay |-> 0,
      \* what the run has done so far
      requested |-> { }, calls |-> 0, errs |-> << >>, slept |-> << >>,
      result |-> "none", save_failed |-> FALSE, paceLog |-> << >>,
      inserts |-> 0, rejected |-> "none",
      overlapped |-> FALSE, logging |-> FALSE, statusLog |-> << >>,
      \* with counting: the provider calls of the whole job
      counting |-> FALSE, job_calls |-> 0,
      \* with noting: the names of its batches that the responses returned lacked
      noting |-> FALSE, lacked |-> { },
      \* the request that asked for the worker, and what its checks returned
      endpoint |-> "", api_ok |-> "untested", paper_seen |-> "unread" ]

NoProbe == [ done |-> FALSE, existing_sections |-> { }, section_pairs |-> << >> ]

\* The rows a client has submitted for the names E (main.py:211-219), in
\* canonical order.
ClientRows(E) ==
    [ i \in 1..Len(SelectSeq(comprehensive_sections, LAMBDA s : s \in E)) |->
        [ section_name |-> SelectSeq(comprehensive_sections, LAMBDA s : s \in E)[i],
          order_index |-> 0, by |-> 0, metadata |-> FALSE ] ]
    \o (IF ExtraNames \cap E # { }
        THEN << [ section_name |-> CHOOSE x \in ExtraNames \cap E : TRUE,
                  order_index |-> 0, by |-> 0, metadata |-> FALSE ] >>
        ELSE << >>)

\* Stored section names that lack only some of the last n canonical names.
NamesMissingAtMost(n) ==
    { E \in SUBSET CanonicalSet :
        \A i \in 1..Len(comprehensive_sections) :
            comprehensive_sections[i] \notin E => i > Len(comprehensive_sections) - n }

\* The canonical names a run that stopped after k sections has stored.
Prefix(k) == { comprehensive_sections[i] : i \in 1..k }

\* No generate_content request has been made.
NoGen ==
    [ pc |-> "idle", paper_id |-> "", section_name |-> "",
      \* attempt and retry_delay of generate_section_content
      attempt |-> 0, retry_delay |-> 0,
      \* the rows of the paper when the request arrived
      before |-> << >>,
      \* what the caller gets: the status code, and what was raised
      status_code |-> 0, cause |-> "" ]

\* No upload has been made.
NoIngest ==
    [ pc |-> "idle", files |-> << >>, f |-> 0, i |-> 0, stored |-> << >>,
      \* a chunk was skipped; process_file raised
      skipped |-> FALSE, raised |-> FALSE ]

\* No get_task_status call has been made.
NoReply == [ t \in TaskIds |-> [ asked |-> FALSE ] ]

InitStoreWith(E, exists, worker) ==
    /\ papers = [ p \in Papers |->
                    [ exists |-> exists, status |-> "draft", meta |-> NoMeta ] ]
    /\ sections = [ p \in Papers |-> ClientRows(E) ]
    /\ tasks = [ t \in TaskIds |-> NoTask ]
    /\ tasksLog = [ t \in TaskIds |-> << >> ]
    /\ start = [ w \in Workers |-> "idle" ]
    /\ wk = [ w \in Workers |-> worker ]
    /\ gen = NoGen
    /\ reply = NoReply
    /\ ingest = NoIngest

InitStore(E, exists) == InitStoreWith(E, exists, IdleWorker)

\* A run whose calls may fail, with few sections missing; a run with no
\* failure from any prefix of the canonical list, with or without a section
\* of another name; a missing paper row.
Init ==
    /\ probe = NoProbe
    /\ \/ /\ faults = Unlimited
          /\ \E E \in NamesMissingAtMost(MaxRemaining) : InitStore(E, TRUE)
       \/ /\ faults = 0
          /\ \E k \in 0..Len(comprehensive_sections), X \in SUBSET ExtraNames :
               InitStore(Prefix(k) \cup X, TRUE)
       \/ /\ faults = Unlimited
          /\ InitStore({ }, FALSE)

CanFail == faults # 0

\* The store that raised into the except clause of line 242 may still be
\* down when that clause writes to it: the same failure, not another one.
StoreStillDown(w) == wk[w].error = "store error"

SpendUnless(down) == faults' = IF ~down /\ faults > 0 THEN faults - 1 ELSE faults

Spend == faults' = IF faults > 0 THEN faults - 1 ELSE faults

\* An outcome other than the expected one counts among the failures the
\* run may meet.
SpendIf(unexpected) ==
    /\ unexpected => CanFail
    /\ faults' = IF unexpected /\ faults > 0 THEN faults - 1 ELSE faults

StoredNames(p) == { sections[p][i].section_name : i \in 1..Len(sections[p]) }

\* supabase.table("papers").update(fields).eq("paper_id", p): no row, no change
UpdatePaper(p, status, meta) ==
    papers' = IF papers[p].exists
              THEN [ papers EXCEPT ![p] = [ @ EXCEPT !.status = status, !.meta = meta ] ]
              ELSE papers

UpdatePaperStatus(p, status) ==
    papers' = IF papers[p].exists
              THEN [ papers EXCEPT ![p] = [ @ EXCEPT !.status = status ] ]
              ELSE papers

\* A write of completed whatever the status, to an entry present or not
SetTaskStatusMutant(t, status) ==
    /\ tasks' = [ tasks EXCEPT ![t] = [ @ EXCEPT !.status = "completed" ] ]
    /\ tasksLog' = [ tasksLog EXCEPT ![t] = Append(@, "completed") ]

\* self.tasks[task_id]["status"] = status, under `if task_id in self.tasks`
SetTaskStatus(t, status) ==
    IF tasks[t].present
    THEN /\ tasks' = [ tasks EXCEPT ![t] = [ @ EXCEPT !.status = status ] ]
         /\ tasksLog' = [ tasksLog EXCEPT ![t] = Append(@, status) ]
    ELSE UNCHANGED << tasks, tasksLog >>


\* ---------------------------------------------------- start_paper_generation

\* How a request that started no job ended (main.py:445, :451, :455, :468).
Refusals == { "not_found", "already_completed", "unavailable", "store_error" }

\* The start call of worker v has returned, or its request started no job.
Resolved(v) == start[v] \in { "returned" } \cup Refusals

\* background_tasks.py:24-32: the thread is created and started.  The calls
\* come from the handlers of one event loop, so one call returns before the
\* next begins.
StartThread(w, p) ==
    /\ start[w] \in { "idle", "passed" }
    /\ \A v \in Workers : start[v] # "spawned"
    /\ \A v \in Workers : v < w => Resolved(v)
    /\ start' = [ start EXCEPT ![w] = "spawned" ]
    /\ wk' = [ wk EXCEPT ![w] = [ @ EXCEPT !.pc = "begin", !.paper_id = p ] ]
    /\ UNCHANGED << tasks, tasksLog, papers, sections, faults, probe, gen, reply, ingest >>

\* background_tasks.py:34-40: the entry is written after the thread started.
StartRegister(w) ==
    /\ start[w] = "spawned"
    /\ LET p == wk[w].paper_id
           t == TaskId(p)
       IN /\ tasks' = [ tasks EXCEPT ![t] =
                          [ NoTask EXCEPT !.present = TRUE, !.status = "started",
                                          !.paper_id = p, !.thread = w ] ]
          /\ tasksLog' = [ tasksLog EXCEPT ![t] = Append(@, "started") ]
    /\ start' = [ start EXCEPT ![w] = "returned" ]
    /\ UNCHANGED << papers, sections, wk, faults, probe, gen, reply, ingest >>

\* ---------------------------------------------------------- get_task_status

GetTaskStatusMutant(task_id) == tasks[TaskId("p1")]

\* background_tasks.py:262  self.tasks.get(task_id, {"status": "not_found"})
get_task_status(task_id) ==
    IF tasks[task_id].present THEN tasks[task_id] ELSE [ status |-> "not_found" ]

\* One call of get_task_status, from main.py:514 or any other caller
AskTaskStatus(task_id) ==
    /\ reply' = [ reply EXCEPT ![task_id] =
                    [ asked |-> TRUE, result |-> get_task_status(task_id) ] ]
    /\ UNCHANGED << tasks, tasksLog, papers, sections, start, wk, faults, probe, gen, ingest >>

\* ------------------------------------------- the requests that start a job

\* The handlers run one at a time: request w is handled when the earlier
\* ones are over.
RequestTurn(w) ==
    /\ start[w] = "idle"
    /\ \A v \in Workers : start[v] \notin { "passed", "spawned" }
    /\ \A v \in Workers : v < w => Resolved(v)

\* paper_result.data of the lookup, by the status of the row
SeenPaper(p) == IF papers[p].exists THEN papers[p].status ELSE "missing"

BoolStr(b) == IF b THEN "true" ELSE "false"

MayStartMutant(api_ok, paper_found) == paper_found

\* main.py:475-481 and :444-455: the job is started when neither check raised
MayStart(api_ok, paper_found) == api_ok /\ paper_found

\* The checks of a request are over with `outcome`; nothing else changes.
Gated(w, endpoint, api_ok, paper_seen, outcome) ==
    /\ start' = [ start EXCEPT ![w] = outcome ]
    /\ wk' = [ wk EXCEPT ![w] = [ @ EXCEPT !.endpoint = endpoint, !.api_ok = api_ok,
                                            !.paper_seen = paper_seen ] ]
    /\ UNCHANGED << tasks, tasksLog, papers, sections, probe, gen, reply, ingest >>

\* main.py:470-482: test_api_connection (content_generator.py:17-32; False
\* when the provider call raised), then the paper lookup.
GenerateCompletePaper(w, p) ==
    /\ RequestTurn(w)
    /\ \/ \E api \in BOOLEAN :
            /\ SpendIf(~api)
            /\ Gated(w, "generate-complete", BoolStr(api),
                     IF api THEN SeenPaper(p) ELSE "unread",
                     IF MayStart(api, papers[p].exists) THEN "passed"
                     ELSE IF ~api THEN "unavailable" ELSE "not_found")
       \/ \* the lookup raised
          /\ CanFail
          /\ Spend
          /\ Gated(w, "generate-complete", "true", "raised", "store_error")

\* main.py:438-458: the paper lookup, the completed check, then
\* test_api_connection.
ResumePaperGeneration(w, p) ==
    /\ RequestTurn(w)
    /\ \/ /\ ~papers[p].exists
          /\ UNCHANGED faults
          /\ Gated(w, "resume-generation", "untested", SeenPaper(p), "not_found")
       \/ /\ papers[p].exists
          /\ papers[p].status = "completed"
          /\ UNCHANGED faults
          /\ Gated(w, "resume-generation", "untested", SeenPaper(p), "already_completed")
       \/ /\ papers[p].exists
          /\ papers[p].status # "completed"
          /\ \E api \in BOOLEAN :
               /\ SpendIf(~api)
               /\ Gated(w, "resume-generation", BoolStr(api), SeenPaper(p),
                        IF MayStart(api, TRUE) THEN "passed" ELSE "unavailable")
       \/ \* the lookup raised
          /\ CanFail
          /\ Spend
          /\ Gated(w, "resume-generation", "untested", "raised", "store_error")

\* start_paper_generation called by a request whose checks passed
StartChecked(w, p) == start[w] = "passed" /\ StartThread(w, p)

\* ------------------------------------- _generate_complete_paper_background

Goto(w, pc) == wk' = [ wk EXCEPT ![w] = [ @ EXCEPT !.pc = pc ] ]

\* An exception reaches the except clause of line 242.
Raise(w, e) == wk' = [ wk EXCEPT ![w] = [ @ EXCEPT !.pc = "handler", !.error = e ] ]

\* An update of the Paper status to `status` was accepted by the store.
Wrote(r, status) ==
    IF r.logging THEN [ r EXCEPT !.statusLog = Append(@, status) ] ELSE r

\* background_tasks.py:46-47
Begin(w) ==
    /\ wk[w].pc = "begin"
    /\ SetTaskStatus(TaskId(wk[w].paper_id), "running")
    /\ Goto(w, "get_paper")
    /\ UNCHANGED << papers, sections, start, faults, probe, gen, reply, ingest >>

\* background_tasks.py:52-56
GetPaper(w) ==
    /\ wk[w].pc = "get_paper"
    /\ \/ /\ papers[wk[w].paper_id].exists
          /\ Goto(w, "set_generating")
          /\ UNCHANGED faults
       \/ /\ ~papers[wk[w].paper_id].exists
          /\ Raise(w, "Paper not found")
          /\ UNCHANGED faults
       \/ /\ CanFail
          /\ Spend
          /\ Raise(w, "store error")
    /\ UNCHANGED << tasks, tasksLog, papers, sections, start, probe, gen, reply, ingest >>

\* background_tasks.py:59-62: a failure of this update is only logged.
SetGenerating(w) ==
    /\ wk[w].pc = "set_generating"
    /\ \/ /\ UpdatePaperStatus(wk[w].paper_id, "generating")
          /\ wk' = [ wk EXCEPT ![w] = [ Wrote(@, "generating") EXCEPT !.pc = "embed" ] ]
          /\ UNCHANGED faults
       \/ /\ CanFail
          /\ Spend
          /\ Goto(w, "embed")
          /\ UNCHANGED papers
    /\ UNCHANGED << tasks, tasksLog, sections, start, probe, gen, reply, ingest >>

\* background_tasks.py:72-73
Embed(w) ==
    /\ wk[w].pc = "embed"
    /\ \/ /\ Goto(w, "match")
          /\ UNCHANGED faults
       \/ /\ CanFail
          /\ Spend
          /\ Raise(w, "embedding error")
    /\ UNCHANGED << tasks, tasksLog, papers, sections, start, probe, gen, reply, ingest >>

\* background_tasks.py:75-84
MatchDocuments(w) ==
    /\ wk[w].pc = "match"
    /\ \/ /\ Goto(w, "read_existing")
          /\ UNCHANGED faults
       \/ /\ CanFail
          /\ Spend
          /\ Raise(w, "store error")
    /\ UNCHANGED << tasks, tasksLog, papers, sections, start, probe, gen, reply, ingest >>

\* Where the loop of line 109 goes with batch index i: the next batch, or
\* the completion of line 210.
LoopPc(section_pairs, i) == IF i < Len(section_pairs) THEN "batch" ELSE "complete"

\* The end of one iteration of the loop of line 109, by the end of its body
\* or by the `continue` of line 208.
AfterBatch(r) ==
    [ r EXCEPT !.batch_idx = @ + 1, !.batch_content = << >>,
               !.attempt = 0, !.retry_delay = 0,
               !.pc = LoopPc(r.section_pairs, r.batch_idx + 1) ]

\* Another worker is between its start and its end.
OtherRunning(w) ==
    \E v \in Workers \ { w } : wk[v].pc \notin { "idle", "done", "crashed" }

\* background_tasks.py:87-106
ReadExisting(w) ==
    /\ wk[w].pc = "read_existing"
    /\ \/ /\ wk' = [ wk EXCEPT ![w] =
                      [ @ EXCEPT
                          !.existing_sections = StoredNames(wk[w].paper_id),
                          !.section_pairs =
                              SectionPairs(RemainingSections(StoredNames(wk[w].paper_id))),
                          !.batch_idx = 0,
                          !.generated_sections = << >>,
                          !.total_words = 0,
                          !.overlapped = OtherRunning(w),
                          !.pc = LoopPc(
                              SectionPairs(RemainingSections(StoredNames(wk[w].paper_id))),
                              0) ] ]
          /\ UNCHANGED faults
       \/ /\ CanFail
          /\ Spend
          /\ Raise(w, "store error")
    /\ UNCHANGED << tasks, tasksLog, papers, sections, start, probe, gen, reply, ingest >>


Pace == 0 - pacing_delay

\* The record of the last generation call is dropped at the worker's next step.
Forget(r) ==
    [ r EXCEPT !.calls = 0, !.errs = << >>, !.slept = << >>, !.result = "none",
               !.save_failed = FALSE, !.inserts = 0, !.rejected = "none" ]

BatchExceptMutant(r) == [ r EXCEPT !.pc = "handler", !.error = "batch error" ]


\* background_tasks.py:206-208: log, continue
BatchExcept(r) == AfterBatch(r)

EnterGenerationMutant(r) == AfterBatch(r)

\* background_tasks.py:134-140: the pacing delay, then the generation call of
\* the batch begins (content_generator.py:285-286, :374-375).
EnterGeneration(r) ==
    [ r EXCEPT !.pc = "generate",
               !.attempt = 0, !.retry_delay = retry_delay_base,
               !.calls = 0, !.errs = << >>, !.slept = << >>, !.result = "none",
               !.save_failed = FALSE, !.inserts = 0, !.rejected = "none",
               !.paceLog = IF ShouldPace(r.batch_idx) THEN Append(@, Pace) ELSE @ ]

\* background_tasks.py:115-123
Progress(r) ==
    [ kind |-> "progress",
      current_section |-> r.section_pairs[r.batch_idx + 1],
      completed_sections |-> Cardinality(r.existing_sections) + Len(r.generated_sections),
      total_sections |-> Len(comprehensive_sections),
      progress_percentage |->
          ProgressPercentage(Cardinality(r.existing_sections) + Len(r.generated_sections)),
      total_words |-> 0,
      error |-> "" ]

\* background_tasks.py:113-128: status and progress metadata before a batch
BatchProgress(w) ==
    /\ wk[w].pc = "batch"
    /\ \/ /\ UpdatePaper(wk[w].paper_id, BatchStatus(wk[w].batch_idx), Progress(wk[w]))
          /\ wk' = [ wk EXCEPT ![w] =
                       EnterGeneration(Wrote(@, BatchStatus(wk[w].batch_idx))) ]
          /\ UNCHANGED faults
       \/ /\ CanFail
          /\ Spend
          /\ wk' = [ wk EXCEPT ![w] = [ Forget(@) EXCEPT !.pc = "batch_fallback" ] ]
          /\ UNCHANGED papers
    /\ UNCHANGED << tasks, tasksLog, sections, start, probe, gen, reply, ingest >>

\* background_tasks.py:129-132: the status alone
BatchProgressFallback(w) ==
    /\ wk[w].pc = "batch_fallback"
    /\ \/ /\ UpdatePaperStatus(wk[w].paper_id, BatchStatus(wk[w].batch_idx))
          /\ wk' = [ wk EXCEPT ![w] =
                       EnterGeneration(Wrote(@, BatchStatus(wk[w].batch_idx))) ]
          /\ UNCHANGED faults
       \/ /\ CanFail
          /\ Spend
          /\ wk' = [ wk EXCEPT ![w] = BatchExcept(@) ]
          /\ UNCHANGED papers
    /\ UNCHANGED << tasks, tasksLog, sections, start, probe, gen, reply, ingest >>

\* The sections a response lacked are filled in, in the order of the batch.
GeneratedMutant(r, batch_content) ==
    LET section_batch == r.section_pairs[r.batch_idx + 1]
        got == { batch_content[i].section_name : i \in 1..Len(batch_content) }
    IN [ r EXCEPT !.result = "returned",
                  !.lacked = IF r.noting THEN @ \cup (Range(section_batch) \ got) ELSE @,
                  !.batch_content =
                      [ i \in 1..Len(section_batch) |->
                          [ section_name |-> section_batch[i], words |-> 1 ] ],
                  !.attempt = 0, !.retry_delay = 0, !.pc = "save" ]

\* The generation call returned batch_content (background_tasks.py:142-162).
Generated(r, batch_content) ==
    LET got == { batch_content[i].section_name : i \in 1..Len(batch_content) }
        seen == [ r EXCEPT !.result = "returned",
                           !.lacked = IF r.noting
                                      THEN @ \cup (Range(r.section_pairs[r.batch_idx + 1]) \ got)
                                      ELSE @ ]
    IN IF batch_content = << >>
       THEN AfterBatch(seen)
       ELSE [ seen EXCEPT !.batch_content = batch_content,
                          !.attempt = 0, !.retry_delay = 0, !.pc = "save" ]

\* A provider call that raised leaves the loop at the same attempt.
CallRaisedMutant(r, error_msg) == r

\* content_generator.py:308-323 and :397-415: one provider call raised
\* error_msg in attempt r.attempt of `for attempt in range(max_retries)`.
CallRaised(r, error_msg) ==
    LET seen == [ r EXCEPT !.errs =
                    Append(@, IF error_msg \in RateLimitMessages THEN "rate" ELSE "other") ]
    IN IF IsRateLimit(error_msg) /\ ShouldSleep(r.attempt)
       THEN \* time.sleep(retry_delay); retry_delay *= 2; continue
            IF r.attempt + 1 < max_retries
            THEN [ seen EXCEPT !.slept = Append(@, r.retry_delay),
                               !.retry_delay = NextDelay(@),
                               !.attempt = @ + 1 ]
            ELSE BatchExcept([ seen EXCEPT !.slept = Append(@, r.retry_delay),
                                           !.result = "raised" ])
       ELSE IF IsLastAttempt(r.attempt) \/ r.attempt + 1 >= max_retries
            THEN BatchExcept([ seen EXCEPT !.result = "raised" ])
            ELSE \* neither branch taken: the loop goes to the next attempt
                 [ seen EXCEPT !.attempt = @ + 1 ]

\* section_batch of the current iteration (background_tasks.py:109)
Batch(w) == wk[w].section_pairs[wk[w].batch_idx + 1]

\* What _parse_multiple_sections returns for the responses other than the
\* one the prompt asks for.
UnexpectedParses(section_names) ==
    { ParseMultipleSections(content, section_names) :
        content \in Responses(section_names) \ { FullResponse(section_names) } }

\* One self.client.models.generate_content call of
\* generate_multiple_sections_content (content_generator.py:288-306) or of
\* generate_section_content (:377-395), from background_tasks.py:140-159.
ProviderCall(w) ==
    /\ wk[w].pc = "generate"
    /\ LET r == [ wk[w] EXCEPT !.calls = @ + 1,
                               !.job_calls = IF wk[w].counting THEN @ + 1 ELSE @,
                               !.requested = @ \cup Range(Batch(w)),
                               !.paceLog =
                                   IF @ # << >> /\ @[Len(@)] = wk[w].batch_idx
                                   THEN @ ELSE Append(@, wk[w].batch_idx) ]
       IN \/ /\ Len(Batch(w)) > 1
             /\ \/ /\ SpendIf(FALSE)
                   /\ wk' = [ wk EXCEPT ![w] =
                                Generated(r, ParseMultipleSections(
                                                 FullResponse(Batch(w)), Batch(w))) ]
                \/ /\ SpendIf(TRUE)
                   /\ \E sections_ \in UnexpectedParses(Batch(w)) :
                        wk' = [ wk EXCEPT ![w] = Generated(r, sections_) ]
          \/ /\ Len(Batch(w)) = 1
             /\ \E words \in WordCounts :
                  /\ SpendIf(words # 1)
                  /\ wk' = [ wk EXCEPT ![w] =
                               Generated(r, << [ section_name |-> Batch(w)[1],
                                                 words |-> words ] >>) ]
          \/ /\ CanFail
             /\ Spend
             /\ \E error_msg \in ErrorMessages :
                  wk' = [ wk EXCEPT ![w] = CallRaised(r, error_msg) ]
    /\ UNCHANGED << tasks, tasksLog, papers, sections, start, probe, gen, reply, ingest >>


\* The section being saved: the next item of batch_content.items()
Item(w) == Head(wk[w].batch_content)

\* The end of one iteration of the loop of line 162.
AfterSave(r) ==
    IF Len(r.batch_content) > 1
    THEN [ r EXCEPT !.batch_content = Tail(@), !.pc = "save" ]
    ELSE AfterBatch(r)

\* background_tasks.py:202-204: log, continue
SaveExcept(r) == AfterSave([ r EXCEPT !.save_failed = TRUE ])

\* Error messages of a rejected insert, as character sequences.
DbNoColumn == << "n", "o", " ", "m", "e", "t", "a", "d", "a", "t", "a", " ", "c", "o", "l", "u", "m", "n" >>
DbMetadataType == << "b", "a", "d", " ", "m", "e", "t", "a", "d", "a", "t", "a" >>
DbUpperCase == << "M", "e", "t", "a", "d", "a", "t", "a", " ", "t", "o", "o", " ", "l", "o", "n", "g" >>
DbDuplicate == << "d", "u", "p", "l", "i", "c", "a", "t", "e" >>
DbTimeout == << "t", "i", "m", "e", "o", "u", "t" >>

DbErrors == { DbNoColumn, DbMetadataType, DbUpperCase, DbDuplicate, DbTimeout }

\* The messages that read metadata somewhere, in that spelling.
MetadataErrors == { DbNoColumn, DbMetadataType }

MentionsMetadataMutant(db_error) == TRUE

\* background_tasks.py:187 and main.py:296  if "metadata" in str(db_error)
MentionsMetadata(db_error) == Contains(<< "m", "e", "t", "a", "d", "a", "t", "a" >>, db_error)

\* background_tasks.py:186-191: the insert with the metadata field raised
\* db_error
InsertRaised(r, db_error) ==
    LET seen == [ r EXCEPT !.rejected =
                    IF db_error \in MetadataErrors THEN "metadata" ELSE "other" ]
    IN IF MentionsMetadata(db_error)
       THEN [ seen EXCEPT !.pc = "save_retry" ]
       ELSE SaveExcept(seen)

\* A row ordered by its position in the table.
SectionRowMutant(w, section_name, with_metadata) ==
    [ section_name |-> section_name, order_index |-> Len(sections[wk[w].paper_id]),
      by |-> w, metadata |-> with_metadata ]

\* background_tasks.py:172-177, :180-184
SectionRow(w, section_name, with_metadata) ==
    [ section_name |-> section_name, order_index |-> SectionIndex(section_name),
      by |-> w, metadata |-> with_metadata ]

\* background_tasks.py:193-199
Saved(r, item) ==
    AfterSave([ r EXCEPT !.generated_sections =
                  Append(@, [ section_name |-> item.section_name,
                              word_count |-> item.words ]) ])

\* background_tasks.py:165-166: the words are added before the insert
Counted(r, item) == [ r EXCEPT !.total_words = @ + item.words ]

\* background_tasks.py:163-191: metrics, then the insert with metadata
SaveSection(w) ==
    /\ wk[w].pc = "save"
    /\ LET r == [ Counted(Forget(wk[w]), Item(w)) EXCEPT !.inserts = 1 ]
       IN \/ /\ sections' = [ sections EXCEPT ![wk[w].paper_id] =
                                Append(@, SectionRow(w, Item(w).section_name, TRUE)) ]
             /\ wk' = [ wk EXCEPT ![w] = Saved(r, Item(w)) ]
             /\ UNCHANGED faults
          \/ \* the insert raised
             /\ CanFail
             /\ Spend
             /\ \E db_error \in DbErrors :
                  wk' = [ wk EXCEPT ![w] = InsertRaised(r, db_error) ]
             /\ UNCHANGED sections
    /\ UNCHANGED << tasks, tasksLog, papers, start, probe, gen, reply, ingest >>

\* background_tasks.py:186-189: the same insert without the metadata field
SaveSectionRetry(w) ==
    /\ wk[w].pc = "save_retry"
    /\ LET r == [ Forget(wk[w]) EXCEPT !.inserts = wk[w].inserts + 1,
                                       !.rejected = wk[w].rejected ]
       IN \/ /\ sections' = [ sections EXCEPT ![wk[w].paper_id] =
                                Append(@, SectionRow(w, Item(w).section_name, FALSE)) ]
             /\ wk' = [ wk EXCEPT ![w] = Saved(r, Item(w)) ]
             /\ UNCHANGED faults
          \/ /\ CanFail
             /\ Spend
             /\ wk' = [ wk EXCEPT ![w] = SaveExcept(r) ]
             /\ UNCHANGED sections
    /\ UNCHANGED << tasks, tasksLog, papers, start, probe, gen, reply, ingest >>

\* background_tasks.py:211-218
FinalStatus(r) ==
    [ kind |-> "final",
      current_section |-> << >>,
      completed_sections |-> Len(r.generated_sections),
      total_sections |-> Len(comprehensive_sections),
      progress_percentage |-> 100,
      total_words |-> r.total_words,
      error |-> "" ]

\* background_tasks.py:220-224
Complete(w) ==
    /\ wk[w].pc = "complete"
    /\ \/ /\ UpdatePaper(wk[w].paper_id, "completed", FinalStatus(wk[w]))
          /\ wk' = [ wk EXCEPT ![w] =
                       [ Forget(Wrote(@, "completed")) EXCEPT !.pc = "mark_completed" ] ]
          /\ UNCHANGED faults
       \/ /\ CanFail
          /\ Spend
          /\ wk' = [ wk EXCEPT ![w] = [ Forget(@) EXCEPT !.pc = "complete_fallback" ] ]
          /\ UNCHANGED papers
    /\ UNCHANGED << tasks, tasksLog, sections, start, probe, gen, reply, ingest >>

\* background_tasks.py:225-229
CompleteFallback(w) ==
    /\ wk[w].pc = "complete_fallback"
    /\ \/ /\ UpdatePaperStatus(wk[w].paper_id, "completed")
          /\ wk' = [ wk EXCEPT ![w] =
                       [ Wrote(@, "completed") EXCEPT !.pc = "mark_completed" ] ]
          /\ UNCHANGED faults
       \/ /\ CanFail
          /\ Spend
          /\ Raise(w, "store error")
          /\ UNCHANGED papers
    /\ UNCHANGED << tasks, tasksLog, sections, start, probe, gen, reply, ingest >>

\* background_tasks.py:231-238
MarkCompleted(w) ==
    /\ wk[w].pc = "mark_completed"
    /\ LET t == TaskId(wk[w].paper_id)
       IN IF tasks[t].present
          THEN /\ tasks' = [ tasks EXCEPT ![t] =
                               [ @ EXCEPT !.status = "completed",
                                          !.has_result = TRUE,
                                          !.sections_generated = Len(wk[w].generated_sections),
                                          !.total_words = wk[w].total_words,
                                          !.result_sections = wk[w].generated_sections ] ]
               /\ tasksLog' = [ tasksLog EXCEPT ![t] = Append(@, "completed") ]
          ELSE UNCHANGED << tasks, tasksLog >>
    /\ Goto(w, "done")
    /\ UNCHANGED << papers, sections, start, faults, probe, gen, reply, ingest >>

\* background_tasks.py:242-250
Handler(w) ==
    /\ wk[w].pc = "handler"
    /\ \/ /\ UpdatePaper(wk[w].paper_id, "error",
                         [ NoMeta EXCEPT !.kind = "error", !.error = wk[w].error ])
          /\ wk' = [ wk EXCEPT ![w] = [ Wrote(@, "error") EXCEPT !.pc = "mark_failed" ] ]
          /\ UNCHANGED faults
       \/ /\ CanFail \/ StoreStillDown(w)
          /\ SpendUnless(StoreStillDown(w))
          /\ Goto(w, "handler_fallback")
          /\ UNCHANGED papers
    /\ UNCHANGED << tasks, tasksLog, sections, start, probe, gen, reply, ingest >>

\* background_tasks.py:251-254: nothing catches a failure of this update
HandlerFallback(w) ==
    /\ wk[w].pc = "handler_fallback"
    /\ \/ /\ UpdatePaperStatus(wk[w].paper_id, "error")
          /\ wk' = [ wk EXCEPT ![w] = [ Wrote(@, "error") EXCEPT !.pc = "mark_failed" ] ]
          /\ UNCHANGED faults
       \/ /\ CanFail \/ StoreStillDown(w)
          /\ SpendUnless(StoreStillDown(w))
          /\ Goto(w, "crashed")
          /\ UNCHANGED papers
    /\ UNCHANGED << tasks, tasksLog, sections, start, probe, gen, reply, ingest >>

\* background_tasks.py:256-258
MarkFailed(w) ==
    /\ wk[w].pc = "mark_failed"
    /\ LET t == TaskId(wk[w].paper_id)
       IN IF tasks[t].present
          THEN /\ tasks' = [ tasks EXCEPT ![t] =
                               [ @ EXCEPT !.status = "failed", !.error = wk[w].error ] ]
               /\ tasksLog' = [ tasksLog EXCEPT ![t] = Append(@, "failed") ]
          ELSE UNCHANGED << tasks, tasksLog >>
    /\ Goto(w, "done")
    /\ UNCHANGED << papers, sections, start, faults, probe, gen, reply, ingest >>

\* One step of worker w.
Work(w) ==
    \/ Begin(w)
    \/ GetPaper(w)
    \/ SetGenerating(w)
    \/ Embed(w)
    \/ MatchDocuments(w)
    \/ ReadExisting(w)
    \/ BatchProgress(w)
    \/ BatchProgressFallback(w)
    \/ ProviderCall(w)
    \/ SaveSection(w)
    \/ SaveSectionRetry(w)
    \/ Complete(w)
    \/ CompleteFallback(w)
    \/ MarkCompleted(w)
    \/ Handler(w)
    \/ HandlerFallback(w)
    \/ MarkFailed(w)

\* ------------------------------------------------- generate_content (main.py)

\* main.py:313-314: whatever was raised inside the try, the HTTPException of
\* line 245 or 311 included, leaves as a 500 that carries its message
GenRaise(cause) ==
    gen' = [ gen EXCEPT !.pc = "failed", !.status_code = 500, !.cause = cause ]

\* POST /api/generate for section_name of paper p (main.py:238-239)
RequestGeneration(p, section_name) ==
    /\ gen.pc = "idle"
    /\ gen' = [ NoGen EXCEPT !.pc = "get_paper", !.paper_id = p,
                             !.section_name = section_name,
                             !.before = sections[p],
                             !.retry_delay = retry_delay_base ]
    /\ UNCHANGED << tasks, tasksLog, papers, sections, start, wk, faults, probe, reply, ingest >>

\* main.py:243-247
GenGetPaper ==
    /\ gen.pc = "get_paper"
    /\ \/ /\ papers[gen.paper_id].exists
          /\ gen' = [ gen EXCEPT !.pc = "embed" ]
          /\ UNCHANGED faults
       \/ /\ ~papers[gen.paper_id].exists
          /\ GenRaise("paper not found")
          /\ UNCHANGED faults
       \/ /\ CanFail
          /\ Spend
          /\ GenRaise("store error")
    /\ UNCHANGED << tasks, tasksLog, papers, sections, start, wk, probe, reply, ingest >>

\* main.py:250-265: the query embedding, then the match_documents call
GenContext ==
    /\ gen.pc \in { "embed", "match" }
    /\ \/ /\ gen' = [ gen EXCEPT !.pc = IF gen.pc = "embed" THEN "match" ELSE "call" ]
          /\ UNCHANGED faults
       \/ /\ CanFail
          /\ Spend
          /\ GenRaise(IF gen.pc = "embed" THEN "embedding error" ELSE "retrieval error")
    /\ UNCHANGED << tasks, tasksLog, papers, sections, start, wk, probe, reply, ingest >>

\* main.py:268-274 and content_generator.py:377-413: one attempt of
\* generate_section_content
GenProviderCall ==
    /\ gen.pc = "call"
    /\ \/ /\ gen' = [ gen EXCEPT !.pc = "insert" ]
          /\ UNCHANGED faults
       \/ /\ CanFail
          /\ Spend
          /\ \E error_msg \in ErrorMessages :
               IF IsRateLimit(error_msg) /\ ShouldSleep(gen.attempt)
               THEN \* time.sleep(retry_delay); retry_delay *= 2; continue
                    gen' = [ gen EXCEPT !.attempt = @ + 1,
                                        !.retry_delay = NextDelay(@) ]
               ELSE IF IsLastAttempt(gen.attempt)
                    THEN GenRaise("provider error")
                    ELSE \* neither branch taken: the loop goes to the next attempt
                         gen' = [ gen EXCEPT !.attempt = @ + 1 ]
    /\ UNCHANGED << tasks, tasksLog, papers, sections, start, wk, probe, reply, ingest >>

\* The rows of a paper after an insert that the store accepted or not
AfterInsertMutant(rows, row, accepted) == Append(rows, row)

\* An insert that replaces the stored row of the same name
AfterInsertUpsert(rows, row, accepted) ==
    IF accepted /\ \E i \in 1..Len(rows) : rows[i].section_name = row.section_name
    THEN [ i \in 1..Len(rows) |->
            IF rows[i].section_name = row.section_name THEN row ELSE rows[i] ]
    ELSE IF accepted THEN Append(rows, row) ELSE rows

AfterInsert(rows, row, accepted) == IF accepted THEN Append(rows, row) ELSE rows

\* main.py:280-290: order_index 0, the metadata field unless it was popped
GenRow(with_metadata) ==
    [ section_name |-> gen.section_name, order_index |-> 0,
      by |-> Cardinality(Workers) + 1, metadata |-> with_metadata ]

\* main.py:292-311: the insert, and after an error that mentions metadata
\* the same insert without the field
GenInsertSection ==
    /\ gen.pc \in { "insert", "insert_retry" }
    /\ \/ /\ sections' = [ sections EXCEPT ![gen.paper_id] =
                             AfterInsert(@, GenRow(gen.pc = "insert"), TRUE) ]
          /\ gen' = [ gen EXCEPT !.pc = "generated", !.status_code = 200 ]
          /\ UNCHANGED faults
       \/ \* the insert returned no row
          /\ CanFail
          /\ Spend
          /\ sections' = [ sections EXCEPT ![gen.paper_id] =
                             AfterInsert(@, GenRow(gen.pc = "insert"), FALSE) ]
          /\ GenRaise("not saved")
       \/ \* the insert raised
          /\ CanFail
          /\ Spend
          /\ sections' = [ sections EXCEPT ![gen.paper_id] =
                             AfterInsert(@, GenRow(gen.pc = "insert"), FALSE) ]
          /\ \E db_error \in DbErrors :
               IF gen.pc = "insert" /\ MentionsMetadata(db_error)
               THEN gen' = [ gen EXCEPT !.pc = "insert_retry" ]
               ELSE GenRaise("insert error")
    /\ UNCHANGED << tasks, tasksLog, papers, start, wk, probe, reply, ingest >>

\* main.py:303-311 has answered, or line 314 has: the handler has returned
\* and the next request can be made
GenReturn ==
    /\ gen.pc \in { "generated", "failed" }
    /\ gen' = NoGen
    /\ UNCHANGED << tasks, tasksLog, papers, sections, start, wk, faults, probe, reply, ingest >>

\* main.py:210-226 create_section: the client's row is inserted as it is; an
\* insert that raises stores nothing and answers 500
create_section(p, section_name) ==
    /\ Len(sections[p]) < MaxRows
    /\ sections' = [ sections EXCEPT ![p] =
                       AfterInsert(@, [ section_name |-> section_name, order_index |-> 0,
                                        by |-> 0, metadata |-> FALSE ], TRUE) ]
    /\ UNCHANGED << tasks, tasksLog, papers, start, wk, faults, probe, gen, reply, ingest >>

generate_content ==
    \/ GenGetPaper
    \/ GenContext
    \/ GenProviderCall
    \/ GenInsertSection

\* ------------------------------------------- process_files_background (main.py)

\* POST /api/papers/{paper_id}/upload has stored the file rows and created
\* the background task (main.py:173-175); files[f] is the number of chunks
\* process_file will cut file f into.
UploadFiles(files) ==
    /\ ingest.pc = "idle"
    /\ ingest' = [ ingest EXCEPT !.pc = "process_file", !.files = files, !.f = 1,
                                 !.stored = [ f \in 1..Len(files) |-> << >> ] ]
    /\ UNCHANGED << tasks, tasksLog, papers, sections, start, wk, faults, probe, gen, reply >>

\* main.py:184-189: the next file of `for file_info in uploaded_files`; a
\* process_file that raises ends the task in the except clause of line 207
NextFile(r) ==
    IF r.f + 1 > Len(r.files) THEN [ r EXCEPT !.pc = "ended" ]
    ELSE [ r EXCEPT !.pc = "process_file", !.f = @ + 1 ]

ProcessFile ==
    /\ ingest.pc = "process_file"
    /\ \/ ingest' = IF ingest.f > Len(ingest.files) THEN [ ingest EXCEPT !.pc = "ended" ]
                    ELSE IF ingest.files[ingest.f] = 0 THEN NextFile(ingest)
                    ELSE [ ingest EXCEPT !.pc = "chunk", !.i = 0 ]
       \/ /\ ingest.f <= Len(ingest.files)
          /\ ingest' = [ ingest EXCEPT !.pc = "ended", !.raised = TRUE ]
    /\ UNCHANGED << tasks, tasksLog, papers, sections, start, wk, faults, probe, gen, reply >>

\* The chunk_index of the row stored for chunk i of enumerate(chunks)
ChunkIndex(i, stored) == i

\* main.py:192-205: chunk i is embedded and inserted with chunk_index i, or
\* one of the two calls raises, which is logged; then the next chunk
StoreChunk ==
    /\ ingest.pc = "chunk"
    /\ \E ok \in BOOLEAN :
         LET f == ingest.f
             r == [ ingest EXCEPT
                      !.stored[f] = IF ok THEN Append(@, ChunkIndex(ingest.i, @)) ELSE @,
                      !.skipped = @ \/ ~ok ]
         IN ingest' = IF ingest.i + 1 < ingest.files[f]
                      THEN [ r EXCEPT !.i = @ + 1 ]
                      ELSE NextFile(r)
    /\ UNCHANGED << tasks, tasksLog, papers, sections, start, wk, faults, probe, gen, reply >>

\* ------------------------------------------------------------ specifications

\* The thread of worker w has ended, by a return or by an exception.
Ended(w) == wk[w].pc \in { "done", "crashed" }

\* One start_paper_generation call for one paper.
Next ==
    \/ StartThread(1, "p1")
    \/ StartRegister(1)
    \/ Work(1)

Spec == Init /\ [][Next]_vars


\* Two start_paper_generation calls for the same paper, the second while the
\* first worker runs or after it; few calls fail.
InitTwo ==
    /\ probe = NoProbe
    /\ faults = MaxFaultsConc
    /\ \E E \in NamesMissingAtMost(MaxRemainingConc) : InitStore(E, TRUE)

NextTwo ==
    \E w \in Workers :
        \/ StartThread(w, "p1")
        \/ StartRegister(w)
        \/ Work(w)

SpecTwo == InitTwo /\ [][NextTwo]_vars

\* One start_paper_generation call whose worker records the Paper status
\* values the store accepted from it; few calls fail.
InitStatus ==
    /\ probe = NoProbe
    /\ faults = MaxFaultsStatus
    /\ \E E \in NamesMissingAtMost(MaxRemaining) :
         InitStoreWith(E, TRUE, [ IdleWorker EXCEPT !.logging = TRUE ])

SpecStatus == InitStatus /\ [][Next]_vars

\* A generate-complete request and, when its job has ended or it started
\* none, a resume-generation request for the same paper; few calls fail.
InitResume ==
    /\ probe = NoProbe
    /\ faults = MaxFaultsResume
    /\ \/ \E E \in NamesMissingAtMost(MaxRemaining) : InitStore(E, TRUE)
       \/ InitStore({ }, FALSE)

\* The resume-generation request w, made when the job of the request
\* before it has ended or that request started none.
ResumeAfterRun(w, p) ==
    /\ Ended(w - 1) \/ start[w - 1] \in Refusals
    /\ ResumePaperGeneration(w, p)

NextResume ==
    \/ GenerateCompletePaper(1, "p1")
    \/ ResumeAfterRun(2, "p1")
    \/ \E w \in Workers :
          \/ StartChecked(w, "p1")
          \/ StartRegister(w)
          \/ Work(w)

SpecResume == InitResume /\ [][NextResume]_vars

\* Two start_paper_generation calls for two papers with the same stored
\* sections, the second while the first worker runs or after it; few calls
\* fail.
NextPapers ==
    \/ StartThread(1, "p1")
    \/ StartThread(2, "p2")
    \/ \E w \in Workers :
          \/ StartRegister(w)
          \/ Work(w)

SpecPapers == InitTwo /\ [][NextPapers]_vars

\* One start_paper_generation call for one paper, and get_task_status calls
\* for its task id and for the task id of a paper with no job, at any time;
\* few calls fail.
NextQuery ==
    \/ Next
    \/ \E task_id \in TaskIds : AskTaskStatus(task_id)

SpecQuery == InitTwo /\ [][NextQuery]_vars

\* The batching of lines 93-101 applied to every set of stored names.
InitBatching ==
    /\ faults = 0
    /\ InitStore({ }, TRUE)
    /\ \E E \in SUBSET AllNames :
         probe = [ done |-> FALSE, existing_sections |-> E, section_pairs |-> << >> ]

ApplyBatching ==
    /\ ~probe.done
    /\ probe' = [ probe EXCEPT
                    !.done = TRUE,
                    !.section_pairs =
                        SectionPairs(RemainingSections(probe.existing_sections)) ]
    /\ UNCHANGED << tasks, tasksLog, papers, sections, start, wk, faults, gen, reply, ingest >>

SpecBatching == InitBatching /\ [][ApplyBatching]_vars


\* One single-section generation request, for any section name of a paper
\* with any prefix of the canonical sections stored, or of no paper at all;
\* any of its calls may fail.
InitRequest ==
    /\ probe = NoProbe
    /\ faults = Unlimited
    /\ \E k \in 0..Len(comprehensive_sections), exists \in BOOLEAN :
         InitStore(Prefix(k), exists)

NextRequest ==
    \/ \E p \in Papers, section_name \in AllNames : RequestGeneration(p, section_name)
    \/ generate_content

SpecRequest == InitRequest /\ [][NextRequest]_vars

\* A full-paper job of p1 together with single-section generation requests
\* and direct section submissions for the same paper, in any order; at most
\* one call fails, and a client stops adding to a paper that has MaxRows
\* rows.
InitRows ==
    /\ probe = NoProbe
    /\ faults \in 0..1
    /\ \E k \in { Len(comprehensive_sections) - 1, Len(comprehensive_sections) } :
         InitStore(Prefix(k), TRUE)

\* A name that is stored and the name the job may be generating
ClientNames == { "Abstract", "Future Work" }

RequestWithinRows(p, section_name) ==
    /\ Len(sections[p]) < MaxRows
    /\ RequestGeneration(p, section_name)

NextRows ==
    \/ Next
    \/ \E section_name \in ClientNames :
          \/ RequestWithinRows("p1", section_name)
          \/ create_section("p1", section_name)
    \/ generate_content
    \/ GenReturn

SpecRows == InitRows /\ [][NextRows]_vars

\* The background ingestion of one upload of up to MaxFiles files of up to
\* MaxChunks chunks each; every call may fail.
InitIngest ==
    /\ probe = NoProbe
    /\ faults = 0
    /\ InitStore({ }, TRUE)

NextIngest ==
    \/ \E files \in SeqsUpTo(0..MaxChunks, MaxFiles) : UploadFiles(files)
    \/ ProcessFile
    \/ StoreChunk

SpecIngest == InitIngest /\ [][NextIngest]_vars

\* A job of a paper for which a client has stored any prefix of the
\* canonical sections and sections of other names; at most one call fails.
SubmitBefore(section_name) ==
    /\ start[1] = "idle"
    /\ create_section("p1", section_name)

InitProgress ==
    /\ probe = NoProbe
    /\ faults \in 0..1
    /\ \E k \in 0..Len(comprehensive_sections), X \in SUBSET ExtraNames :
         InitStore(Prefix(k) \cup X, TRUE)

NextProgress ==
    \/ Next
    \/ SubmitBefore("Appendix")

SpecProgress == InitProgress /\ [][NextProgress]_vars

\* One start_paper_generation call whose worker counts its provider calls:
\* with the last few sections missing and any call failing, or from any
\* prefix of the canonical list with no call failing.
InitCalls ==
    /\ probe = NoProbe
    /\ \/ /\ faults = Unlimited
          /\ \E k \in 0..MaxRemainingCalls :
               InitStoreWith(Prefix(Len(comprehensive_sections) - k), TRUE,
                             [ IdleWorker EXCEPT !.counting = TRUE ])
       \/ /\ faults = 0
          /\ \E k \in 0..Len(comprehensive_sections) :
               InitStoreWith(Prefix(k), TRUE, [ IdleWorker EXCEPT !.counting = TRUE ])

SpecCalls == InitCalls /\ [][Next]_vars

\* One start_paper_generation call whose worker notes what its responses
\* lacked; one call of the run fails or returns something unexpected.
InitShortfall ==
    /\ probe = NoProbe
    /\ faults = 1
    /\ \E E \in NamesMissingAtMost(MaxRemaining) :
         InitStoreWith(E, TRUE, [ IdleWorker EXCEPT !.counting = TRUE, !.noting = TRUE ])

SpecShortfall == InitShortfall /\ [][Next]_vars

\* ---------------------------------------------------- the parser on its own

\* The header line the prompt asks for (content_generator.py:262, :277)
HeaderLine(name) ==
    Marker \o << " " >> \o name \o << " ", "=", "=", "=", "\n" >>

Foo == << "f", "o", "o" >>
Bar == << "b", "a", "r" >>

\* What a response is put together from: headers with an expected name, with
\* one in lower case, with a name that is not expected, with two expected
\* names, a header cut short, a marker in lower case, and lines of body.
Pieces ==
    { HeaderLine(Chars("Abstract")),
      HeaderLine(Lower(Chars("Introduction"))),
      HeaderLine(Chars("Related Work")),
      HeaderLine(Chars("Introduction") \o << " ", "/", " " >> \o Chars("Abstract")),
      Marker,
      Lower(Marker),
      Foo \o << "\n" >>,
      Bar \o << "\n" >>,
      << "\n" >>,
      Chars("Abstract") \o << ":", " " >> }

Texts == { Flatten(q) : q \in SeqsUpTo(Pieces, MaxPieces) }

\* The two names of a batch, in the order they were asked for
ExpectedLists ==
    { << "Abstract", "Introduction" >>, << "Introduction", "Abstract" >> }

\* _parse_multiple_sections applied to every text made of at most MaxPieces
\* pieces.
InitParser ==
    /\ faults = 0
    /\ InitStore({ }, TRUE)
    /\ \E content \in Texts, section_names \in ExpectedLists :
         probe = [ done |-> FALSE, content |-> content,
                   section_names |-> section_names, sections |-> { } ]

ApplyParser ==
    /\ ~probe.done
    /\ probe' = [ probe EXCEPT
                    !.done = TRUE,
                    !.sections =
                        parse_multiple_sections(probe.content, probe.section_names) ]
    /\ UNCHANGED << tasks, tasksLog, papers, sections, start, wk, faults, gen, reply, ingest >>

SpecParser == InitParser /\ [][ApplyParser]_vars

\* The bodies of the blocks of a well-formed response for section_names: plain
\* words, a body that opens with "Here is the", bodies of two lines and with
\* a run of blank lines, and bodies that open with one of the names.
HereIsTheFoo == << "H", "e", "r", "e", " ", "i", "s", " ", "t", "h", "e",
                   " ", "f", "o", "o" >>
FooBar == << "f", "o", "o", "\n", "b", "a", "r" >>
FooGapBar == << "f", "o", "o", "\n", "\n", "\n", " ", "\n", "b", "a", "r" >>

Named(name) == Lower(Chars(name)) \o << ":", " " >> \o Foo

Bodies(section_names) ==
    { Foo, Bar, HereIsTheFoo, FooBar, FooGapBar }
        \cup { Named(section_names[i]) : i \in 1..Len(section_names) }

\* The response the prompt asks for (content_generator.py:262, :277): for
\* each block its header line, its body and a blank line.
Build(blocks) ==
    Flatten([ i \in 1..Len(blocks) |->
                HeaderLine(Chars(blocks[i].section_name))
                    \o blocks[i].body \o << "\n", "\n" >> ])

\* Two canonical names in the order of the list, as a batch asks for them
CanonicalPairs ==
    { pair \in CanonicalSet \X CanonicalSet :
        SectionIndex(pair[1]) < SectionIndex(pair[2]) }

\* _parse_multiple_sections applied to every response of one block per
\* expected name, the blocks in either order.
InitBlocks ==
    /\ faults = 0
    /\ InitStore({ }, TRUE)
    /\ \E section_names \in CanonicalPairs, first \in 1..2 :
         \E b1 \in Bodies(section_names), b2 \in Bodies(section_names) :
            LET blocks ==
                    << [ section_name |-> section_names[first], body |-> b1 ],
                       [ section_name |-> section_names[3 - first], body |-> b2 ] >>
            IN probe = [ done |-> FALSE, content |-> Build(blocks),
                         section_names |-> section_names, sections |-> { },
                         blocks |-> blocks ]

SpecBlocks == InitBlocks /\ [][ApplyParser]_vars

\* ------------------------------------------------------------------- claims

TaskOf(w) == TaskId(wk[w].paper_id)

Started(w) == wk[w].pc # "idle"

\* The rows of paper p that worker w inserted, by their positions.
RowsBy(w, p) == { i \in 1..Len(sections[p]) : sections[p][i].by = w }

\* The rows of paper p that some worker inserted.
OrchestratorRows(p) == { i \in 1..Len(sections[p]) : sections[p][i].by \in Workers }

IsPrefix(a, b) == Len(a) <= Len(b) /\ SubSeq(b, 1, Len(a)) = a

InLoop(r) == r.pc \in { "batch", "batch_fallback", "generate", "save", "save_retry" }

\* C1: a full-paper job that runs alone requests generation only for
\* canonical names that had no row when it read the stored sections, and
\* inserts no row whose name already had one.
C1_IdempotentResume ==
    \A w \in Workers : Started(w) =>
        LET p == wk[w].paper_id
        IN /\ wk[w].requested \subseteq CanonicalSet \ wk[w].existing_sections
           /\ \A i \in RowsBy(w, p) :
                /\ sections[p][i].section_name \notin wk[w].existing_sections
                /\ \A j \in 1..Len(sections[p]) :
                     j # i => sections[p][j].section_name # sections[p][i].section_name

\* With Abstract and Introduction stored, the run has requested and
\* inserted the other nine names.
C1_Witness ==
    /\ wk[1].pc = "done"
    /\ wk[1].existing_sections = { "Abstract", "Introduction" }
    /\ wk[1].requested = CanonicalSet \ { "Abstract", "Introduction" }
    /\ Cardinality(RowsBy(1, "p1")) = 9

\* C2: a generation call that raised, or a section whose save raised, leaves
\* the worker in the loop (at the next section, the next batch or the
\* completion), with no error caught by the job, the registry entry not
\* failed and the Paper status not error; the loop has moved on by exactly
\* the failed batch, and the completion is reached only after every batch.
C2_PartialSuccess ==
    \A w \in Workers : Started(w) =>
        LET r == wk[w]
            p == r.paper_id
        IN /\ (r.result = "raised" \/ r.save_failed) =>
                /\ r.pc \in { "save", "batch", "complete" }
                /\ r.error = ""
                /\ tasks[TaskId(p)].status # "failed"
                /\ papers[p].status # "error"
           /\ r.result = "raised" =>
                /\ r.batch_idx >= 1
                /\ Range(r.section_pairs[r.batch_idx]) \subseteq r.requested
                /\ r.batch_idx < Len(r.section_pairs) =>
                     /\ r.pc = "batch"
                     /\ Range(r.section_pairs[r.batch_idx + 1]) \cap r.requested = { }
           /\ InLoop(r) => r.batch_idx < Len(r.section_pairs)
           /\ r.pc = "complete" => r.batch_idx = Len(r.section_pairs)

\* The generation of the first batch raised and the second batch is next.
C2_Witness ==
    /\ wk[1].result = "raised"
    /\ wk[1].pc = "batch"
    /\ wk[1].batch_idx = 1

\* The entry was written before the worker took its first step.
EntrySeen(w) ==
    /\ Len(tasksLog[TaskOf(w)]) >= 2
    /\ tasksLog[TaskOf(w)][1] = "started"
    /\ tasksLog[TaskOf(w)][2] = "running"

\* C3: a job that caught an exception outside the per-batch boundary ends
\* with the Paper status error and the registry entry failed with the
\* message, whatever the store does (here for a paper whose row exists and a
\* worker that saw its registry entry).
C3_UnrecoverableFailure ==
    \A w \in Workers :
        (Ended(w) /\ wk[w].error # "" /\ papers[wk[w].paper_id].exists /\ EntrySeen(w)) =>
            /\ papers[wk[w].paper_id].status = "error"
            /\ tasks[TaskOf(w)].status = "failed"
            /\ tasks[TaskOf(w)].error = wk[w].error

\* C4: once the worker thread has ended and the start call has returned, the
\* registry entry is completed or failed (nothing writes it afterwards).
C4_RunsToCompletionOrFailure ==
    \A w \in Workers :
        (Ended(w) /\ start[w] = "returned") =>
            tasks[TaskOf(w)].status \in { "completed", "failed" }

\* C5: the status values written to the entry of a single start call are
\* started, running, then completed or failed, in that order.
C5_StatusOrder ==
    \A t \in TaskIds :
        \/ IsPrefix(tasksLog[t], << "started", "running", "completed" >>)
        \/ IsPrefix(tasksLog[t], << "started", "running", "failed" >>)

\* C6 as stated: under every interleaving of two workers for one paper, no
\* two rows inserted by workers carry the same section name.
C6_NoSectionTwice ==
    \A p \in Papers : \A i, j \in OrchestratorRows(p) :
        i # j => sections[p][i].section_name # sections[p][j].section_name

\* C6 amended: a worker requests and inserts no section whose name had a
\* row when it read the stored sections; when no worker read them while
\* another worker was running, no two rows inserted by workers carry the
\* same name.
C6_NoRegenerationOfStored ==
    /\ \A w \in Workers : Started(w) =>
          /\ wk[w].requested \cap wk[w].existing_sections = { }
          /\ \A i \in RowsBy(w, wk[w].paper_id) :
               sections[wk[w].paper_id][i].section_name \notin wk[w].existing_sections
    /\ (\A w \in Workers : ~wk[w].overlapped) => C6_NoSectionTwice

\* The second worker ran after the first had ended and stored a section:
\* it found the section stored and requested nothing.
C6_Witness ==
    /\ wk[1].pc = "done"
    /\ wk[2].pc = "done"
    /\ ~wk[1].overlapped /\ ~wk[2].overlapped
    /\ RowsBy(1, "p1") # { }
    /\ \A i \in RowsBy(1, "p1") :
         sections["p1"][i].section_name \in wk[2].existing_sections
    /\ wk[2].requested = { }

C8_NoRetryOfOtherErrors ==
    \A w \in Workers :
        \A i \in 1..Len(wk[w].errs) :
            wk[w].errs[i] = "other" =>
                /\ i = Len(wk[w].errs)
                /\ wk[w].calls = i
                /\ wk[w].result = "raised"

\* C9: the batches are consecutive slices of the remaining sections (the
\* canonical list without the stored names, in canonical order), each of 1
\* or 2 names, a singleton only last and exactly when the count is odd.
C9_Batching ==
    probe.done =>
        LET pairs == probe.section_pairs
            remaining ==
                [ i \in 1..Cardinality(CanonicalSet \ probe.existing_sections) |->
                    CHOOSE s \in CanonicalSet \ probe.existing_sections :
                        Cardinality({ x \in CanonicalSet \ probe.existing_sections :
                                        SectionIndex(x) < SectionIndex(s) }) = i - 1 ]
        IN /\ Flatten(pairs) = remaining
           /\ \A i \in 1..Len(pairs) :
                /\ Len(pairs[i]) \in { 1, 2 }
                /\ Len(pairs[i]) = 1 => i = Len(pairs)
           /\ Len(pairs) = (Len(remaining) + 1) \div 2
           /\ (pairs # << >> /\ Len(pairs[Len(pairs)]) = 1) <=> Len(remaining) % 2 = 1

\* Nine sections remain: four pairs and a last singleton.
C9_Witness ==
    /\ probe.done
    /\ probe.existing_sections = { "Abstract", "Introduction" }
    /\ Len(probe.section_pairs) = 5
    /\ probe.section_pairs[5] = << "Future Work" >>

\* C10: in the order of a job's pacing delays and generation calls, no
\* delay comes before the generation call of the first batch, and a 15 s
\* delay lies between the generation calls of any two different batches.
C10_Pacing ==
    \A w \in Workers :
        LET L == wk[w].paceLog
        IN /\ \A i \in 1..Len(L) : L[i] = 0 => \A k \in 1..(i - 1) : L[k] >= 0
           /\ \A i, j \in 1..Len(L) :
                (i < j /\ L[i] >= 0 /\ L[j] >= 0 /\ L[i] # L[j]) =>
                    \E k \in (i + 1)..(j - 1) : L[k] = 0 - 15

\* The first batch stored nothing and the second batch is being generated
\* after one pacing delay.
C10_Witness ==
    /\ wk[1].paceLog = << 0, 0 - 15, 1 >>
    /\ wk[1].generated_sections = << >>
    /\ wk[1].pc = "generate"

FinalStatuses == { "completed", "error" }

BatchStatuses == { BatchStatus(n) : n \in 0..5 }

\* N of generating_batch_N
BatchNumber(status) == 1 + CHOOSE n \in 0..5 : BatchStatus(n) = status

\* generating only first, batch numbers increasing, nothing after a
\* completed or an error.
StatusOrdered(L) ==
    /\ \A i \in 1..Len(L) : L[i] \in { "generating" } \cup BatchStatuses \cup FinalStatuses
    /\ \A i \in 1..Len(L) : L[i] = "generating" => i = 1
    /\ \A i, j \in 1..Len(L) :
          (i < j /\ L[i] \in BatchStatuses /\ L[j] \in BatchStatuses) =>
              BatchNumber(L[i]) < BatchNumber(L[j])
    /\ \A i \in 1..Len(L) : L[i] \in FinalStatuses => i = Len(L)

\* The order alone, which every run keeps.
StatusWritesOrdered == \A w \in Workers : StatusOrdered(wk[w].statusLog)

\* C11: the Paper status values a job has written are generating (first),
\* generating_batch_N with N increasing, then completed or error and
\* nothing after it; a job that has ended has made exactly one such final
\* write.
C11_StatusWrites ==
    \A w \in Workers :
        LET L == wk[w].statusLog
        IN /\ StatusOrdered(L)
           /\ (wk[w].logging /\ Ended(w)) =>
                 Cardinality({ i \in 1..Len(L) : L[i] \in FinalStatuses }) = 1

ThreadStarted(w) == start[w] \in { "spawned", "returned" }

\* Worker w has built its batches.
HasBatches(w) ==
    \/ InLoop(wk[w])
    \/ /\ wk[w].pc \in { "complete", "complete_fallback", "mark_completed", "done" }
       /\ wk[w].error = ""

\* C13: after a run that went through all its batches and ended with
\* sections of its batches not stored, a resume-generation request that
\* found the provider reachable and the store readable starts a job, and
\* the batches of that job hold exactly the canonical names not stored.
C13_ResumeAfterPartial ==
    (/\ wk[1].pc = "done"
     /\ wk[1].error = ""
     /\ Len(wk[1].generated_sections) < Len(Flatten(wk[1].section_pairs))
     /\ wk[2].endpoint = "resume-generation"
     /\ wk[2].api_ok # "false"
     /\ wk[2].paper_seen # "raised") =>
        /\ start[2] \in { "passed", "spawned", "returned" }
        /\ HasBatches(2) =>
              Range(Flatten(wk[2].section_pairs)) = CanonicalSet \ wk[2].existing_sections

\* C15: a request creates the thread only with test_api_connection
\* returned true and the paper row found, and a step in which a request
\* ends without starting a job changes neither the registry nor the store
\* nor any worker.
C15_PreflightGate ==
    [][ \A w \in Workers :
          /\ (~ThreadStarted(w) /\ ThreadStarted(w)') =>
                /\ wk[w].endpoint \in { "generate-complete", "resume-generation" }
                /\ wk[w].api_ok = "true"
                /\ wk[w].paper_seen \notin { "unread", "missing", "raised" }
                /\ papers[wk'[w].paper_id].exists
          /\ (start[w] = "idle" /\ start'[w] \in Refusals) =>
                /\ wk'[w].api_ok # "true" \/ wk'[w].paper_seen \in { "missing", "raised", "completed" }
                /\ tasks' = tasks
                /\ papers' = papers
                /\ sections' = sections
                /\ wk' = [ wk EXCEPT ![w] =
                            [ @ EXCEPT !.endpoint = wk'[w].endpoint,
                                       !.api_ok = wk'[w].api_ok,
                                       !.paper_seen = wk'[w].paper_seen ] ]
                /\ wk'[w].pc = "idle"
                /\ \A v \in Workers \ { w } : start'[v] = start[v]
      ]_vars

\* The generate-complete request found the provider unreachable and
\* started nothing; the resume-generation request that followed passed both
\* checks and its worker runs.
C15_Witness ==
    /\ start[1] = "unavailable"
    /\ wk[1].pc = "idle"
    /\ wk[1].api_ok = "false"
    /\ start[2] = "returned"
    /\ wk[2].endpoint = "resume-generation"
    /\ wk[2].api_ok = "true"
    /\ wk[2].pc = "batch"

\* C14: an insert rejected with a message that reads metadata is retried
\* once without the field and never a second time; an insert rejected
\* with another message is not retried and the section is skipped; after a
\* retry that the store accepted the row without metadata is stored, the
\* section is in generated_sections and the job has caught no error.
C14_MetadataRetry ==
    \A w \in Workers :
        LET r == wk[w]
            p == r.paper_id
        IN /\ r.inserts <= 2
           /\ r.pc = "save_retry" =>
                 r.inserts = 1 /\ r.rejected = "metadata" /\ ~r.save_failed /\ r.error = ""
           /\ r.rejected = "metadata" /\ r.pc # "save_retry" => r.inserts = 2
           /\ r.rejected = "other" =>
                 r.inserts = 1 /\ r.save_failed /\ r.pc # "save_retry"
           /\ r.inserts = 2 => r.rejected = "metadata"
           /\ (r.inserts = 2 /\ ~r.save_failed) =>
                 /\ r.generated_sections # << >>
                 /\ RowsBy(w, p) # { }
                 /\ LET row == sections[p][Len(sections[p])]
                        last == r.generated_sections[Len(r.generated_sections)]
                    IN /\ row.by = w
                       /\ ~row.metadata
                       /\ row.section_name = last.section_name
                       /\ Cardinality(RowsBy(w, p)) = Len(r.generated_sections)
                 /\ r.error = ""
                 /\ r.pc \in { "save", "batch", "complete" }
                 /\ tasks[TaskId(p)].status # "failed"
                 /\ papers[p].status # "error"

\* The retry without metadata has just stored the section.
C14_Witness ==
    /\ wk[1].inserts = 2
    /\ wk[1].rejected = "metadata"
    /\ ~wk[1].save_failed
    /\ Len(wk[1].generated_sections) = 1
    /\ ~sections["p1"][Len(sections["p1"])].metadata
    /\ sections["p1"][Len(sections["p1"])].by = 1

\* C16: a step of the start call or of the worker of one paper leaves the
\* registry entry, the Paper row and the Section rows of every other paper
\* as they were.
C16_PapersIndependent ==
    [][ \A w \in Workers :
          (wk'[w] # wk[w] \/ start'[w] # start[w]) =>
              \A q \in Papers \ { wk'[w].paper_id } :
                  /\ papers'[q] = papers[q]
                  /\ sections'[q] = sections[q]
                  /\ tasks'[TaskId(q)] = tasks[TaskId(q)]
                  /\ tasksLog'[TaskId(q)] = tasksLog[TaskId(q)]
      ]_vars

\* Both jobs have completed; each has its own registry entry and has
\* stored a section in its own paper only.
C16_Witness ==
    /\ wk[1].pc = "done" /\ wk[2].pc = "done"
    /\ tasks[TaskId("p1")].status = "completed" /\ tasks[TaskId("p1")].paper_id = "p1"
    /\ tasks[TaskId("p2")].status = "completed" /\ tasks[TaskId("p2")].paper_id = "p2"
    /\ RowsBy(1, "p1") # { } /\ RowsBy(1, "p2") = { }
    /\ RowsBy(2, "p2") # { } /\ RowsBy(2, "p1") = { }
    /\ papers["p1"].status = "completed" /\ papers["p2"].status = "completed"

\* The paper a task id was derived from.
PaperOfTask(task_id) == CHOOSE p \in Papers : TaskId(p) = task_id

\* start_paper_generation has been called for the task id.
StartCalled(task_id) ==
    \E w \in Workers : ThreadStarted(w) /\ TaskOf(w) = task_id

\* start_paper_generation has returned for the task id.
StartReturned(task_id) ==
    \E w \in Workers : start[w] = "returned" /\ TaskOf(w) = task_id

\* C17: a get_task_status call leaves the registry as it was; for a task
\* id with no start call it returns the status not_found and nothing else;
\* for a task id whose start call has returned it returns the entry of the
\* registry, whose paper_id is the paper the id was derived from.
C17_TaskStatus ==
    [][ \A task_id \in TaskIds :
          reply'[task_id] # reply[task_id] =>
              /\ tasks' = tasks
              /\ tasksLog' = tasksLog
              /\ reply'[task_id].asked
              /\ ~StartCalled(task_id) =>
                    reply'[task_id].result = [ status |-> "not_found" ]
              /\ StartReturned(task_id) =>
                    /\ reply'[task_id].result = tasks[task_id]
                    /\ reply'[task_id].result.status
                          \in { "started", "running", "completed", "failed" }
                    /\ reply'[task_id].result.paper_id = PaperOfTask(task_id)
      ]_vars

\* While the job of p1 runs, its task id reports the running entry of p1
\* and the task id of p2, never started, reports not_found.
C17_Witness ==
    /\ reply[TaskId("p1")].asked
    /\ reply[TaskId("p1")].result.status = "running"
    /\ reply[TaskId("p1")].result.paper_id = "p1"
    /\ reply[TaskId("p2")].asked
    /\ reply[TaskId("p2")].result = [ status |-> "not_found" ]
    /\ tasks[TaskId("p1")].status = "running"
    /\ ~tasks[TaskId("p2")].present

\* How many times the marker occurs in a text
MarkerCount(content) ==
    Cardinality({ i \in 1..Len(content) : StartsWith(Drop(content, i - 1), Marker) })

\* C18: whatever the response text, the batch parser returns a mapping: its
\* keys are expected names, each key is a name the text shows (in any case)
\* and the text has a marker for it, so a fragment whose header has no
\* expected name adds nothing, and a text with fewer markers than expected
\* names gives fewer sections than expected names.
C18_ParserTotal ==
    probe.done =>
        LET keys == { item.section_name : item \in probe.sections }
        IN /\ keys \subseteq Range(probe.section_names)
           /\ Cardinality(keys) = Cardinality(probe.sections)
           /\ Cardinality(keys) <= MarkerCount(probe.content)
           /\ \A k \in keys :
                Contains(Lower(Chars(k)), Lower(probe.content))
           /\ \A item \in probe.sections :
                item.content \in Seq({ probe.content[i] : i \in 1..Len(probe.content) }
                                      \cup { " " })

\* A text with one fragment of an expected name and one of a name that is
\* not expected: only the first is in the mapping.
C18_Witness ==
    /\ probe.done
    /\ probe.section_names = << "Abstract", "Introduction" >>
    /\ MarkerCount(probe.content) = 2
    /\ Contains(Chars("Related Work"), probe.content)
    /\ probe.sections = { [ section_name |-> "Abstract", content |-> Foo ] }

\* What post-processing leaves of a body of a block of section_name
Cleaned(body, section_name) ==
    LET abstract == section_name = "Abstract"
    IN CASE body = HereIsTheFoo -> Foo
         [] body = Named(section_name) -> Foo
         [] body = FooBar /\ abstract -> << "f", "o", "o", " ", "b", "a", "r" >>
         [] body = FooGapBar /\ abstract -> << "f", "o", "o", " ", "b", "a", "r" >>
         [] body = FooGapBar /\ ~abstract ->
                << "f", "o", "o", "\n", "\n", "b", "a", "r" >>
         [] OTHER -> body

\* C19: for a response of one block per expected name, the blocks in any
\* order, the parser returns exactly the expected names, each mapped to the
\* body of its own block and never to the body of another block. The body
\* is the post-processed one: without an opening "Here is the" and without
\* its own section name in front, a run of blank lines made one blank line,
\* and the newlines of an Abstract made spaces; a body that needs none of
\* this (foo, bar) is returned as it is.
C19_RoundTrip ==
    probe.done =>
        LET own == { [ section_name |-> probe.blocks[i].section_name,
                       content |-> Cleaned(probe.blocks[i].body,
                                           probe.blocks[i].section_name) ] :
                        i \in 1..Len(probe.blocks) }
        IN /\ probe.sections = own
           /\ { item.section_name : item \in probe.sections }
                = Range(probe.section_names)
           /\ \A i \in 1..Len(probe.blocks) :
                probe.blocks[i].body \in { Foo, Bar } =>
                    [ section_name |-> probe.blocks[i].section_name,
                      content |-> probe.blocks[i].body ] \in probe.sections

\* The response with the block of Introduction (bar) before the block of
\* Abstract (foo) has been parsed: Abstract -> foo, Introduction -> bar.
C19_Witness ==
    /\ probe.done
    /\ probe.section_names = << "Abstract", "Introduction" >>
    /\ probe.blocks = << [ section_name |-> "Introduction", body |-> Bar ],
                         [ section_name |-> "Abstract", body |-> Foo ] >>
    /\ probe.sections = { [ section_name |-> "Abstract", content |-> Foo ],
                          [ section_name |-> "Introduction", content |-> Bar ] }

\* C20: a single-section generation request that has failed has reported an
\* error status to the caller, and the sections of every paper are the ones
\* stored when the request arrived: no row was inserted.
C20_FailedRequestInsertsNothing ==
    gen.pc = "failed" =>
        /\ gen.status_code >= 400
        /\ gen.cause # ""
        /\ \A p \in Papers : sections[p] = gen.before

\* The provider failed in every attempt of a request for a paper that has
\* sections stored.
C20_Witness ==
    /\ gen.pc = "failed"
    /\ gen.cause = "provider error"
    /\ gen.attempt = max_retries - 1
    /\ gen.before # << >>
    /\ sections[gen.paper_id] = gen.before

\* C21: every step of a job, of a single-section generation request or of a
\* direct submission leaves the Section rows of every paper in place, in
\* their order and unchanged, and may only add rows after them; the step in
\* which a single-section generation request succeeds adds exactly one row,
\* of the requested name, to the requested paper, whether or not a row of
\* that name is stored.
C21_InsertOnly ==
    [][ /\ \A p \in Papers : IsPrefix(sections[p], sections'[p])
        /\ (gen.pc # "generated" /\ gen'.pc = "generated") =>
              /\ Len(sections'[gen.paper_id]) = Len(sections[gen.paper_id]) + 1
              /\ sections'[gen.paper_id][Len(sections'[gen.paper_id])].section_name
                    = gen.section_name
              /\ \A q \in Papers \ { gen.paper_id } : sections'[q] = sections[q]
      ]_vars

\* A request for Abstract has succeeded for a paper that had an Abstract, a
\* row of the job among its rows: there are two rows named Abstract.
C21_Witness ==
    /\ gen.pc = "generated"
    /\ gen.section_name = "Abstract"
    /\ gen.paper_id = "p1"
    /\ RowsBy(1, "p1") # { }
    /\ Cardinality({ i \in 1..Len(sections["p1"]) :
                        sections["p1"][i].section_name = "Abstract" }) = 2

\* C22: after the background ingestion has ended, the chunk indices stored
\* for each document are 0, 1, ... up to the number of its stored chunks
\* less one, whatever calls failed.
C22_ChunkIndicesContiguous ==
    ingest.pc = "ended" =>
        \A f \in 1..Len(ingest.files) :
            { ingest.stored[f][k] : k \in 1..Len(ingest.stored[f]) }
                = 0..(Len(ingest.stored[f]) - 1)

\* What does hold: the stored indices of a document are distinct, increase
\* in the order stored and lie in 0..n-1 for the n chunks of the document,
\* and they are exactly 0..n-1 when no chunk was skipped and no file failed.
ChunkIndicesIncrease ==
    \A f \in 1..Len(ingest.files) :
        /\ \A k \in 1..Len(ingest.stored[f]) :
              /\ ingest.stored[f][k] \in 0..(ingest.files[f] - 1)
              /\ k > 1 => ingest.stored[f][k - 1] < ingest.stored[f][k]
        /\ (ingest.pc = "ended" /\ ~ingest.skipped /\ ~ingest.raised) =>
              ingest.stored[f] = [ k \in 1..ingest.files[f] |-> k - 1 ]

\* C23: when the Paper status is completed, all canonical sections are stored
\* for the paper.
C23_CompletedMeansAllSections ==
    \A p \in Papers :
        papers[p].status = "completed" => CanonicalSet \subseteq StoredNames(p)

RECURSIVE SumWords(_)
SumWords(generated_sections) ==
    IF generated_sections = << >> THEN 0
    ELSE Head(generated_sections).word_count + SumWords(Tail(generated_sections))

\* C24: the total_words of the final metadata of the Paper and of the
\* registry result is the sum of the word counts of the sections in the
\* result's sections list.
C24_TotalWordsOfPersisted ==
    \A p \in Papers :
        /\ tasks[TaskId(p)].has_result =>
              tasks[TaskId(p)].total_words = SumWords(tasks[TaskId(p)].result_sections)
        /\ (papers[p].meta.kind = "final" /\ wk[1].pc \in { "mark_completed", "done" }) =>
              papers[p].meta.total_words = SumWords(wk[1].generated_sections)

\* C25: every progress record on the Paper has
\* 0 <= completed_sections <= total_sections = 11 and
\* 0 <= progress_percentage <= 100.
C25_ProgressInRange ==
    \A p \in Papers :
        papers[p].meta.kind \in { "progress", "final" } =>
            /\ papers[p].meta.total_sections = 11
            /\ papers[p].meta.completed_sections >= 0
            /\ papers[p].meta.completed_sections <= papers[p].meta.total_sections
            /\ papers[p].meta.progress_percentage >= 0
            /\ papers[p].meta.progress_percentage <= 100

\* C26: from one write of the Paper's metadata by a run to the next, the
\* final write included, completed_sections does not decrease.
C26_CompletedNeverDecreases ==
    [][ \A p \in Papers :
          (/\ papers[p].meta.kind \in { "progress", "final" }
           /\ papers'[p].meta.kind \in { "progress", "final" })
          => papers'[p].meta.completed_sections >= papers[p].meta.completed_sections
      ]_vars

\* What does hold: among the progress records written before the batches,
\* completed_sections does not decrease.
ProgressNeverDecreases ==
    [][ \A p \in Papers :
          (/\ papers[p].meta.kind = "progress"
           /\ papers'[p].meta.kind = "progress")
          => papers'[p].meta.completed_sections >= papers[p].meta.completed_sections
      ]_vars

\* C27 as stated: the registry entry of a paper describes the worker of the
\* latest start call: it reports completed or failed only after that worker
\* has ended.
C27_EntryOfNewestWorker ==
    \A p \in Papers :
        (/\ tasks[TaskId(p)].present
         /\ tasks[TaskId(p)].status \in { "completed", "failed" })
        => Ended(tasks[TaskId(p)].thread)

\* C27, amended: the two start calls for a paper share one registry entry.
\* The entry is the one the latest returned start call wrote, and every
\* worker of the paper writes its status to it: the entry reports completed
\* or failed only after some worker of the paper has made its terminal
\* write, which may be the older worker while the newer one still runs.
C27_SharedEntry ==
    \A p \in Papers :
        LET entry == tasks[TaskId(p)]
            returned == { w \in Workers : start[w] = "returned" /\ wk[w].paper_id = p }
        IN /\ entry.present <=> returned # { }
           /\ entry.present =>
                /\ entry.paper_id = p
                /\ entry.thread \in returned
                /\ \A w \in returned : w <= entry.thread
           /\ entry.status \in { "completed", "failed" } =>
                \E w \in Workers : wk[w].paper_id = p /\ wk[w].pc = "done"

\* The entry written by the second start call reports completed, written by
\* the first worker, while the second worker is still running.
C27_Witness ==
    /\ tasks[TaskId("p1")].thread = 2
    /\ tasks[TaskId("p1")].status = "completed"
    /\ wk[1].pc = "done"
    /\ ~Ended(2)
    /\ start[2] = "returned"

\* ceil(n / 2)
CeilHalf(n) == (n + 1) \div 2

\* C28: a generation call makes at most 3 provider calls and ends with the
\* first one that succeeds; a job with r sections remaining makes at most
\* 3 * ceil(r / 2) <= 18 provider calls, none when no section remains, and exactly
\* ceil(r / 2) when it went through its batches with no call of the run
\* failing.
C28_ProviderCallsBounded ==
    \A w \in Workers :
        LET r == wk[w]
            batches == CeilHalf(Cardinality(CanonicalSet \ r.existing_sections))
            begun == IF r.pc \in { "generate", "save", "save_retry" }
                     THEN r.batch_idx + 1 ELSE r.batch_idx
        IN r.counting =>
             /\ r.calls <= max_retries
             /\ r.result = "returned" => Len(r.errs) = r.calls - 1
             /\ r.result = "raised" => Len(r.errs) = r.calls
             /\ r.pc = "generate" => Len(r.errs) = r.calls
             /\ r.section_pairs = << >> => r.job_calls = 0
             /\ r.section_pairs # << >> =>
                  /\ Len(r.section_pairs) = batches
                  /\ r.job_calls <= max_retries * begun
                  /\ begun <= batches
                  /\ \A n \in 0..Len(comprehensive_sections) :
                       max_retries * CeilHalf(n) <= 18
                  /\ (r.batch_idx = batches /\ faults = 0) => r.job_calls = batches

\* A job with 3 sections remaining has ended after 6 provider calls, 3
\* for each of its 2 batches.
C28_Witness ==
    /\ wk[1].counting
    /\ wk[1].pc = "done"
    /\ Cardinality(CanonicalSet \ wk[1].existing_sections) = 3
    /\ Len(wk[1].section_pairs) = 2
    /\ wk[1].job_calls = 6

\* C29: a step in which a job inserts a row inserts one row, whose name is
\* a name of the batch being processed, hence canonical, and whose
\* order_index is the 0-based position of that name in the canonical list;
\* after it the rows of the job, in whatever order they were inserted, have
\* distinct names and indices increasing with the canonical position.
C29_CanonicalOrderIndex ==
    [][ \A w \in Workers :
          LET p == wk[w].paper_id
              n == Len(sections[p])
          IN (/\ p \in Papers
              /\ Len(sections'[p]) > n
              /\ sections'[p][n + 1].by = w) =>
                LET row == sections'[p][n + 1]
                    mine == { i \in 1..(n + 1) : sections'[p][i].by = w }
                IN /\ Len(sections'[p]) = n + 1
                   /\ wk[w].pc \in { "save", "save_retry" }
                   /\ row.section_name \in Range(Batch(w))
                   /\ row.section_name \in CanonicalSet
                   /\ row.order_index \in 0..(Len(comprehensive_sections) - 1)
                   /\ comprehensive_sections[row.order_index + 1] = row.section_name
                   /\ \A i, j \in mine :
                        /\ i # j => sections'[p][i].section_name # sections'[p][j].section_name
                        /\ sections'[p][i].order_index < sections'[p][j].order_index
                             <=> \E a, b \in 1..Len(comprehensive_sections) :
                                   /\ a < b
                                   /\ comprehensive_sections[a] = sections'[p][i].section_name
                                   /\ comprehensive_sections[b] = sections'[p][j].section_name
  ]_vars

\* The job has inserted the two sections of one batch in the order the
\* response gave them, the later canonical name first.
C29_Witness ==
    \E i \in RowsBy(1, "p1") :
        /\ i + 1 \in RowsBy(1, "p1")
        /\ sections["p1"][i].order_index = sections["p1"][i + 1].order_index + 1
        /\ \E b \in 1..Len(wk[1].section_pairs) :
              wk[1].section_pairs[b] =
                  << sections["p1"][i + 1].section_name, sections["p1"][i].section_name >>

====
